---- MODULE Spec2Model ----
(***************************************************************************)
(* Hermes news digest: the URL normaliser and feed reader of               *)
(* hermes_discoverer.py and the two-stage relevance filter of              *)
(* filter_and_save.py.                                                     *)
(*                                                                         *)
(* Text is modelled as a sequence of one-character strings, so that        *)
(* parsing, replacing and re-assembling are computed and not assumed.      *)
(* LLM responses are sequences of tokens: the literals the regular         *)
(* expressions of the code look for are single tokens.                     *)
(***************************************************************************)
EXTENDS Integers, Sequences, FiniteSets, TLC

VARIABLES
    \* ---- normalize_url (hermes_discoverer.py) ----
    nu_parts,      \* the components the input URL was written from
    nu_url,        \* the input string
    nu_pc,         \* "input" | "normalized" | "again" | "tracked" | "www"
    nu_out,        \* normalize_url(nu_url)
    nu_other,      \* a second input string (again: nu_out; tracked / www: a variant of nu_url)
    nu_out2,       \* normalize_url(nu_other)
    \* ---- process_rss_source (hermes_discoverer.py) ----
    feed,          \* feed.entries of the source being read
    cutoff_time,   \* UTC seconds
    found_urls,    \* the candidate set (all_candidate_urls)
    rss_i,         \* index of the next entry of the for loop
    rss_pc,        \* "idle" | "loop" | "returned"
    is_rss,        \* the return value of process_rss_source
    rss_added,     \* ghost: for each entry index, the URL its iteration added (or NoUrl)
    \* ---- filter_and_save.py __main__ ----
    candidate_file, \* NoFile, or the lines of candidate_urls.txt
    urls_to_process,
    pc,            \* position of the filtering run
    idx,           \* index of the candidate of the current (or just finished) iteration
    article_data,  \* result of get_article_content for that candidate
    response,      \* what the LLM capability did when asked Stage A for that candidate
    answer,        \* what the LLM capability did when asked Stage B for that candidate
    passed_thematic,
    reason_thematic,
    passed_confirmation,
    database,      \* database.md, a sequence of records
    saved_count,
    exit_code,     \* NoExit while running
    calls,         \* ghost: LLM calls made in this iteration, [a, b, s]
    db_len,        \* ghost: Len(database) when the run and the iteration began, [run, iter]
    llm,           \* the LLM capability the run talks to: what it may answer
    \* ---- hermes_discoverer.py __main__ ----
    static_config,  \* config_hermes.yaml: absent, unparsable, or the value yaml.safe_load gives
    dynamic_config, \* output/dynamic_sources.yaml, likewise
    processed_log,  \* output/processed_urls.log: NoFile, or its lines
    sources_to_process,
    processed_urls,
    disc_pc,       \* position of the discovery run
    src_i,         \* index of the source of the current iteration
    crawl_links,   \* crawl_html_source: the links of links_to_check not yet looked at
    disc_exit,     \* exit status of the discovery run, NoExit while running
    disc_log,      \* ghost: the calls the run made, in order, as [op, src]
    \* ---- get_article_content (scraper_module.py) ----
    scr_web,       \* what the site and the browser do for the URL
    scr_pc,
    scr_result,    \* the value get_article_content returns
    scr_tried,     \* ghost: the strategies attempted, in order
    \* ---- database.md written and read back ----
    ledger_text,   \* the text of database.md
    written,       \* ghost: the articles append_to_database was called with, in order
    articles,      \* what parse_database returns
    led_pc,
    \* ---- successive pipeline runs (run_hermes.py) ----
    run,           \* number of the pipeline run
    evaluated,     \* ghost: the URLs the filtering runs before this one evaluated
    \* ---- one link of crawl_html_source (hermes_discoverer.py) ----
    date_page,     \* the linked page: whether it can be fetched, and its date signals
    date_found,    \* found_urls before the link is looked at
    date_pc,       \* "idle" | "link" | "checked"
    date_out,      \* what find_article_date returned for the page
    date_added,    \* the URL the iteration added to found_urls, NoUrl when none
    \* ---- run_hermes.py: HermesApp ----
    is_running,
    gui_pending,   \* the task type start_task is about to start a thread for, or "none"
    workers,       \* the worker threads started so far, in order
    \* ---- visual_enhancer.py __main__ ----
    all_articles,  \* list(parse_database()), with the image keys the loop sets
    enh_pc         \* "idle" | "loop" | "update" | "done" | "exited"

vars == <<nu_parts, nu_url, nu_pc, nu_out, nu_other, nu_out2,
          feed, cutoff_time, found_urls, rss_i, rss_pc, is_rss, rss_added,
          candidate_file, urls_to_process, pc, idx, article_data, response, answer,
          passed_thematic, reason_thematic, passed_confirmation,
          database, saved_count, exit_code, calls, db_len, llm,
          static_config, dynamic_config, processed_log, sources_to_process, processed_urls,
          disc_pc, src_i, crawl_links, disc_exit, disc_log,
          scr_web, scr_pc, scr_result, scr_tried,
          ledger_text, written, articles, led_pc,
          run, evaluated,
          date_page, date_found, date_pc, date_out, date_added,
          is_running, gui_pending, workers,
          all_articles, enh_pc>>

nu_vars == <<nu_parts, nu_url, nu_pc, nu_out, nu_other, nu_out2>>
rss_vars == <<feed, cutoff_time, found_urls, rss_i, rss_pc, is_rss, rss_added>>
flt_vars == <<candidate_file, urls_to_process, pc, idx, article_data, response, answer,
              passed_thematic, reason_thematic, passed_confirmation,
              database, saved_count, exit_code, calls, db_len>>
disc_vars == <<static_config, dynamic_config, processed_log, sources_to_process,
               processed_urls, disc_pc, src_i, crawl_links, disc_exit, disc_log>>
scr_vars == <<scr_web, scr_pc, scr_result, scr_tried>>
led_vars == <<ledger_text, written, articles, led_pc>>
pipe_vars == <<run, evaluated>>
date_vars == <<date_page, date_found, date_pc, date_out, date_added>>
gui_vars == <<is_running, gui_pending, workers>>
enh_vars == <<all_articles, enh_pc>>
ext_vars == <<date_vars, gui_vars, enh_vars>>
other_vars == <<llm, disc_vars, scr_vars, led_vars, pipe_vars, ext_vars>>

(***************************************************************************)
(* Strings as sequences of characters.                                     *)
(***************************************************************************)
Take(s, n) == SubSeq(s, 1, n)
Drop(s, n) == SubSeq(s, n + 1, Len(s))

\* str.find(c, from): the first index >= from holding c, 0 when there is none
Find(s, c, from) ==
    IF \E i \in from..Len(s) : s[i] = c
    THEN CHOOSE i \in from..Len(s) : s[i] = c /\ \A j \in from..(i - 1) : s[j] # c
    ELSE 0

\* str.rfind(c): the last index holding c, 0 when there is none
RFind(s, c) ==
    IF \E i \in 1..Len(s) : s[i] = c
    THEN CHOOSE i \in 1..Len(s) : s[i] = c /\ \A j \in (i + 1)..Len(s) : s[j] # c
    ELSE 0

StartsWith(s, p) == Len(s) >= Len(p) /\ Take(s, Len(p)) = p

\* str.replace(old, ""): leftmost, non-overlapping occurrences removed, one pass
RECURSIVE Remove(_, _)
Remove(s, old) ==
    IF s = <<>> THEN <<>>
    ELSE IF StartsWith(s, old) THEN Remove(Drop(s, Len(old)), old)
    ELSE <<Head(s)>> \o Remove(Tail(s), old)

\* str.split(sep) on a one-character separator
RECURSIVE Split(_, _)
Split(s, sep) ==
    LET i == Find(s, sep, 1)
    IN  IF i = 0 THEN <<s>> ELSE <<Take(s, i - 1)>> \o Split(Drop(s, i), sep)

\* sep.join(list)
RECURSIVE Join(_, _)
Join(list, sep) ==
    IF list = <<>> THEN <<>>
    ELSE IF Len(list) = 1 THEN list[1]
    ELSE list[1] \o sep \o Join(Tail(list), sep)

RECURSIVE MapChars(_, _, _)
MapChars(s, from, to) ==
    IF s = <<>> THEN <<>>
    ELSE <<IF Head(s) = from THEN to ELSE Head(s)>> \o MapChars(Tail(s), from, to)

(***************************************************************************)
(* normalize_url, hermes_discoverer.py:93-104, with the urllib.parse       *)
(* functions it calls computed on the characters of the string.            *)
(***************************************************************************)
Str_http  == <<"h", "t", "t", "p">>
Str_https == <<"h", "t", "t", "p", "s">>
Str_www   == <<"w", "w", "w", ".">>
Str_utm   == <<"u", "t", "m", "_">>
Str_fbclid == <<"f", "b", "c", "l", "i", "d">>
Str_gclid == <<"g", "c", "l", "i", "d">>

Letters == {"a", "b", "c", "d", "f", "g", "h", "i", "k", "l", "m", "p", "s", "t", "u", "w", "x"}
Digits  == {"0", "1", "2", "3", "4", "5", "6", "7", "8", "9"}
\* urllib.parse.scheme_chars
scheme_chars == Letters \cup Digits \cup {"+", "-", "."}
\* the characters quote_plus leaves alone (besides the space it writes as +)
always_safe == Letters \cup Digits \cup {"_", ".", "-", "~"}

\* s cut at index i (the character at i dropped); i = 0: nothing is cut off
CutAt(s, i) ==
    IF i = 0 THEN [found |-> FALSE, head |-> s, tail |-> <<>>]
    ELSE [found |-> TRUE, head |-> Take(s, i - 1), tail |-> Drop(s, i)]

\* urlsplit, the scheme: the text before the first colon when it is made of
\* scheme characters and starts with a letter
scheme_at(url, colon) ==
    IF colon > 1 /\ url[1] \in Letters /\ \A j \in 1..(colon - 1) : url[j] \in scheme_chars
    THEN CutAt(url, colon)
    ELSE [found |-> FALSE, head |-> <<>>, tail |-> url]

\* _splitnetloc: the netloc ends at the first of / ? # after the leading //
netloc_end(url) ==
    IF \E i \in 3..Len(url) : url[i] \in {"/", "?", "#"}
    THEN CHOOSE i \in 3..Len(url) :
            url[i] \in {"/", "?", "#"} /\ \A j \in 3..(i - 1) : url[j] \notin {"/", "?", "#"}
    ELSE Len(url) + 1

netloc_at(url, delim) == [netloc |-> SubSeq(url, 3, delim - 1), rest |-> Drop(url, delim - 1)]

splitnetloc(url) ==
    IF StartsWith(url, <<"/", "/">>) THEN netloc_at(url, netloc_end(url))
    ELSE [netloc |-> <<>>, rest |-> url]

\* _splitparams: the ; of the last path segment
params_index(url, slash) == IF slash > 0 THEN Find(url, ";", slash) ELSE Find(url, ";", 1)

splitparams(url) == CutAt(url, params_index(url, RFind(url, "/")))

\* urlparse, assembled from the pieces cut off one after the other
with_params(sch, nl, frag, qry, par) ==
    [scheme |-> sch.head, netloc |-> nl.netloc, path |-> par.head, params |-> par.tail,
     query |-> qry.tail, fragment |-> frag.tail]

with_query(sch, nl, frag, qry) == with_params(sch, nl, frag, qry, splitparams(qry.head))

with_fragment(sch, nl, frag) == with_query(sch, nl, frag, CutAt(frag.head, Find(frag.head, "?", 1)))

with_netloc(sch, nl) == with_fragment(sch, nl, CutAt(nl.rest, Find(nl.rest, "#", 1)))

with_scheme(sch) == with_netloc(sch, splitnetloc(sch.tail))

\* urlparse(url): scheme, netloc, path, params, query, fragment
urlparse(url) == with_scheme(scheme_at(url, Find(url, ":", 1)))

\* unquote on the escapes of this alphabet (%2F is the only one a string here holds)
RECURSIVE unquote(_)
unquote(s) ==
    IF s = <<>> THEN <<>>
    ELSE IF StartsWith(s, <<"%", "2", "F">>) THEN <<"/">> \o unquote(Drop(s, 3))
    ELSE <<Head(s)>> \o unquote(Tail(s))

\* parse_qsl's decoding of a name or a value: + is a space, then unquote
unquote_plus(s) == unquote(MapChars(s, "+", " "))

\* quote_plus: the space becomes +, an unsafe character its escape
RECURSIVE quote_plus(_)
quote_plus(s) ==
    IF s = <<>> THEN <<>>
    ELSE (IF Head(s) = " " THEN <<"+">>
          ELSE IF Head(s) \in always_safe THEN <<Head(s)>>
          ELSE <<"%", "2", "F">>   \* "/", the one unsafe character of this alphabet
         ) \o quote_plus(Tail(s))

\* parse_qsl(qs): the (name, value) pairs; empty fields, fields without = and
\* blank values are dropped (strict_parsing and keep_blank_values are False)
parse_field(nv, eq) ==
    IF nv = <<>> \/ eq = 0 \/ Drop(nv, eq) = <<>> THEN <<>>
    ELSE <<[k |-> unquote_plus(Take(nv, eq - 1)), v |-> unquote_plus(Drop(nv, eq))]>>

RECURSIVE parse_fields(_)
parse_fields(fields) ==
    IF fields = <<>> THEN <<>>
    ELSE parse_field(Head(fields), Find(Head(fields), "=", 1)) \o parse_fields(Tail(fields))

parse_qsl(qs) == IF qs = <<>> THEN <<>> ELSE parse_fields(Split(qs, "&"))

\* parse_qs(qs): a dict name -> list of values, as the list of its items in
\* insertion order (a name is placed where it first occurs)
\* the values of name k in the pairs, in order
RECURSIVE values_of(_, _)
values_of(pairs, k) ==
    IF pairs = <<>> THEN <<>>
    ELSE (IF Head(pairs).k = k THEN <<Head(pairs).v>> ELSE <<>>) \o values_of(Tail(pairs), k)

RECURSIVE dict_items(_, _)
dict_items(pairs, seen) ==
    IF pairs = <<>> THEN <<>>
    ELSE IF Head(pairs).k \in seen THEN dict_items(Tail(pairs), seen)
    ELSE <<[k |-> Head(pairs).k, v |-> values_of(pairs, Head(pairs).k)]>>
         \o dict_items(Tail(pairs), seen \cup {Head(pairs).k})

parse_qs(qs) == dict_items(parse_qsl(qs), {})

\* is_tracking_key with the gclid prefix forgotten
is_tracking_key_no_gclid(k) == StartsWith(k, Str_utm) \/ StartsWith(k, Str_fbclid)

\* k.startswith(('utm_', 'fbclid', 'gclid'))
is_tracking_key(k) ==
    StartsWith(k, Str_utm) \/ StartsWith(k, Str_fbclid) \/ StartsWith(k, Str_gclid)

\* {k: v for k, v in params.items() if not k.startswith(...)}
filter_params(items) == SelectSeq(items, LAMBDA it : ~is_tracking_key(it.k))

\* parsed.netloc.replace('www.', '')
strip_www(netloc) == Remove(netloc, Str_www)

\* urlencode(items, doseq=True)
encode_item(k, vs) == [i \in 1..Len(vs) |-> k \o <<"=">> \o quote_plus(vs[i])]

RECURSIVE urlencode_fields(_)
urlencode_fields(items) ==
    IF items = <<>> THEN <<>>
    ELSE encode_item(quote_plus(Head(items).k), Head(items).v) \o urlencode_fields(Tail(items))

urlencode(items) == Join(urlencode_fields(items), <<"&">>)

\* urlunsplit: // and the netloc in front of the path, then scheme, query, fragment
unsplit_fragment(url, fragment) == IF fragment # <<>> THEN url \o <<"#">> \o fragment ELSE url

unsplit_query(url, query) == IF query # <<>> THEN url \o <<"?">> \o query ELSE url

unsplit_scheme(scheme, url) == IF scheme # <<>> THEN scheme \o <<":">> \o url ELSE url

unsplit_netloc(scheme, netloc, url) ==
    IF netloc # <<>> \/ (scheme # <<>> /\ ~StartsWith(url, <<"/", "/">>))
    THEN <<"/", "/">> \o netloc \o (IF url # <<>> /\ Head(url) # "/" THEN <<"/">> ELSE <<>>) \o url
    ELSE url

unparse_params(path, params) == IF params # <<>> THEN path \o <<";">> \o params ELSE path

\* urlunparse((scheme, netloc, path, params, query, fragment))
urlunparse(scheme, netloc, path, params, query, fragment) ==
    unsplit_fragment(
        unsplit_query(
            unsplit_scheme(scheme, unsplit_netloc(scheme, netloc, unparse_params(path, params))),
            query),
        fragment)

\* the body of normalize_url on the parsed URL
normalize_parsed(parsed) ==
    urlunparse(parsed.scheme, strip_www(parsed.netloc), parsed.path, parsed.params,
               urlencode(filter_params(parse_qs(parsed.query))), parsed.fragment)

normalize_url(url) == normalize_parsed(urlparse(url))

(***************************************************************************)
(* The URLs normalize_url is applied to: written from components, so that  *)
(* a claim can speak of "the host" or "a parameter" of the input.          *)
(***************************************************************************)
MaxParams == 2

\* scheme, path (with ;params) and fragment of the inputs
Shapes == { [scheme |-> Str_http, path |-> <<>>, fragment |-> <<>>],
            [scheme |-> Str_https, path |-> <<"/", "p", ";", "x">>, fragment |-> <<"f">>] }
\* hosts: plain, with the www. prefix, with www. inside, with overlapping w's, and
\* a netloc with userinfo and port around the host
Hosts == { <<"a", ".", "c">>,
           Str_www \o <<"a", ".", "c">>,
           <<"a", ".">> \o Str_www \o <<"c">>,
           <<"w">> \o Str_www \o <<"w", "w", ".", "a", ".", "c">>,
           <<"u", "@", "a", ".", "c", ":", "8">> }
\* fields of the query string, as written in the URL
TrackingFields == { Str_utm \o <<"s", "=", "1">>,
                    Str_fbclid \o <<"=", "x">>,
                    Str_gclid \o <<"x", "=", "1">> }
OtherFields == { <<"a", "=", "1">>,
                 <<"a", "=", "2">>,
                 <<"b", "=", "+", "/">>,
                 <<"u", "t", "m", "=", "1">>,
                 <<"a", "=">>,
                 <<"c">> }
Fields == TrackingFields \cup OtherFields
QueryLists == UNION {[1..n -> Fields] : n \in 0..MaxParams}

\* the text of a URL with these components
UrlString(parts) ==
    parts.scheme \o <<":", "/", "/">> \o parts.host \o parts.path
    \o (IF parts.fields # <<>> THEN <<"?">> \o Join(parts.fields, <<"&">>) ELSE <<>>)
    \o (IF parts.fragment # <<>> THEN <<"#">> \o parts.fragment ELSE <<>>)

UrlParts == { [scheme |-> sh.scheme, host |-> h, path |-> sh.path, fields |-> q,
               fragment |-> sh.fragment] : sh \in Shapes, h \in Hosts, q \in QueryLists }

\* list with x inserted so that it becomes element number pos
InsertAt(list, pos, x) == Take(list, pos - 1) \o <<x>> \o Drop(list, pos - 1)

NoStr == <<"<unset>">>

NuInit ==
    /\ nu_parts \in UrlParts
    /\ nu_url = UrlString(nu_parts)
    /\ nu_pc = "input"
    /\ nu_out = NoStr
    /\ nu_other = NoStr
    /\ nu_out2 = NoStr

\* normalize_url(url)
Normalize ==
    /\ nu_pc = "input"
    /\ nu_out' = normalize_url(nu_url)
    /\ nu_pc' = "normalized"
    /\ UNCHANGED <<nu_parts, nu_url, nu_other, nu_out2, rss_vars, flt_vars, other_vars>>

\* normalize_url applied to its own result
NormalizeAgain ==
    /\ nu_pc = "normalized"
    /\ nu_other' = nu_out
    /\ nu_out2' = normalize_url(nu_out)
    /\ nu_pc' = "again"
    /\ UNCHANGED <<nu_parts, nu_url, nu_out, rss_vars, flt_vars, other_vars>>

\* normalize_url applied to the same URL carrying one more, tracking, parameter
NormalizeTracked ==
    /\ nu_pc = "normalized"
    /\ \E f \in TrackingFields, pos \in 1..(Len(nu_parts.fields) + 1) :
         /\ nu_other' = UrlString([nu_parts EXCEPT !.fields = InsertAt(@, pos, f)])
         /\ nu_out2' = normalize_url(nu_other')
    /\ nu_pc' = "tracked"
    /\ UNCHANGED <<nu_parts, nu_url, nu_out, rss_vars, flt_vars, other_vars>>

\* normalize_url applied to the same URL with www. in front of its host
NormalizeWww ==
    /\ nu_pc = "normalized"
    /\ nu_other' = UrlString([nu_parts EXCEPT !.host = Str_www \o @])
    /\ nu_out2' = normalize_url(nu_other')
    /\ nu_pc' = "www"
    /\ UNCHANGED <<nu_parts, nu_url, nu_out, rss_vars, flt_vars, other_vars>>


(***************************************************************************)
(* Values of the parts of the state a specification does not use.          *)
(***************************************************************************)
NoUrl == <<"<none>">>
NoFile == <<<<"<no file>">>>>
NoExit == -1
None == [none |-> TRUE]

NuIdle ==
    /\ nu_parts = None
    /\ nu_url = NoStr
    /\ nu_pc = "idle"
    /\ nu_out = NoStr
    /\ nu_other = NoStr
    /\ nu_out2 = NoStr

RssIdle ==
    /\ feed = <<>>
    /\ cutoff_time = 0
    /\ found_urls = {}
    /\ rss_i = 0
    /\ rss_pc = "idle"
    /\ is_rss = None
    /\ rss_added = <<>>

NoCall == [kind |-> "none", text |-> <<>>]
NoArticle == [ok |-> FALSE, title |-> <<>>, content |-> <<>>]
NoCalls == [a |-> 0, b |-> 0, s |-> 0]

FltIdle ==
    /\ candidate_file = NoFile
    /\ urls_to_process = <<>>
    /\ pc = "idle"
    /\ idx = 0
    /\ article_data = NoArticle
    /\ response = NoCall
    /\ answer = NoCall
    /\ passed_thematic = FALSE
    /\ reason_thematic = NoStr
    /\ passed_confirmation = FALSE
    /\ database = <<>>
    /\ saved_count = 0
    /\ exit_code = NoExit
    /\ calls = NoCalls
    /\ db_len = [run |-> 0, iter |-> 0]

NoLlm == "none"
NoConfig == [kind |-> "nofile", sources |-> [kind |-> "absent", items |-> <<>>]]

DiscIdle ==
    /\ static_config = NoConfig
    /\ dynamic_config = NoConfig
    /\ processed_log = NoFile
    /\ sources_to_process = <<>>
    /\ processed_urls = {}
    /\ disc_pc = "idle"
    /\ src_i = 0
    /\ crawl_links = {}
    /\ disc_exit = NoExit
    /\ disc_log = <<>>

ScrIdle ==
    /\ scr_web = None
    /\ scr_pc = "idle"
    /\ scr_result = NoArticle
    /\ scr_tried = <<>>

LedIdle ==
    /\ ledger_text = <<>>
    /\ written = <<>>
    /\ articles = <<>>
    /\ led_pc = "idle"

PipeIdle ==
    /\ run = 0
    /\ evaluated = {}

DateIdle ==
    /\ date_page = None
    /\ date_found = {}
    /\ date_pc = "idle"
    /\ date_out = None
    /\ date_added = NoUrl

\* HermesApp.__init__, line 45
GuiInit ==
    /\ is_running = FALSE
    /\ gui_pending = "none"
    /\ workers = <<>>

EnhIdle ==
    /\ all_articles = <<>>
    /\ enh_pc = "idle"

ExtIdle == DateIdle /\ GuiInit /\ EnhIdle

(***************************************************************************)
(* SpecNorm: normalize_url on every URL of UrlParts.                       *)
(***************************************************************************)
SpecNormInit ==
    NuInit /\ RssIdle /\ FltIdle /\ llm = NoLlm /\ DiscIdle /\ ScrIdle /\ LedIdle /\ PipeIdle /\ ExtIdle
SpecNormNext == Normalize \/ NormalizeAgain \/ NormalizeTracked \/ NormalizeWww
SpecNorm == SpecNormInit /\ [][SpecNormNext]_vars

(***************************************************************************)
(* process_rss_source, hermes_discoverer.py:126-149.                       *)
(* Time is UTC seconds.  An entry is what feedparser hands over: its link  *)
(* (NoUrl when absent or empty) and published_parsed, which is absent or     *)
(* None (NoTime), a struct_time datetime() rejects (BadTime), or a time.   *)
(***************************************************************************)
SUMMARY_HOURS == 72
MaxEntries == 2

\* values of entry.published_parsed
NoTime == [kind |-> "none", t |-> 0]
BadTime == [kind |-> "bad", t |-> 0]
TimeAt(t) == [kind |-> "time", t |-> t]
\* a date string date_parser accepts and astimezone(timezone.utc) cannot convert
\* (0001-01-01T00:00:00+05:00): OverflowError
OutOfRange == [kind |-> "overflow", t |-> 0]
DateRaised == [kind |-> "raise", t |-> 0]
\* datetime.now(timezone.utc) of the run, and the cutoff derived from it
Now == 1000000
CutoffOf(now) == now - SUMMARY_HOURS * 3600
\* the cutoffs process_rss_source is called with: that of Now, and that of a clock
\* 72 hours after the epoch (cutoff 0)
Cutoffs == {CutoffOf(Now), CutoffOf(SUMMARY_HOURS * 3600)}

Link_a_tracked == Str_http \o <<":", "/", "/">> \o Str_www \o <<"a", ".", "c", "/", "?">>
                  \o Str_utm \o <<"s", "=", "1">>
Link_b == Str_http \o <<":", "/", "/", "b", ".", "c", "/">>
Links == {NoUrl, Link_a_tracked, Link_b}
Published == {NoTime, BadTime, TimeAt(CutoffOf(Now) - 1), TimeAt(CutoffOf(Now)),
              TimeAt(Now - 3600)}
Entries == [link : Links, published_parsed : Published]
Feeds == UNION {[1..n -> Entries] : n \in 0..MaxEntries}

\* datetime(*entry.published_parsed[:6], tzinfo=timezone.utc); ValueError on BadTime
\* (pub_date stays None when published_parsed is absent or None)
pub_date_of(entry) ==
    IF entry.published_parsed.kind = "none" THEN [raised |-> FALSE, value |-> NoTime]
    ELSE IF entry.published_parsed.kind = "bad" THEN [raised |-> TRUE, value |-> NoTime]
    ELSE [raised |-> FALSE, value |-> entry.published_parsed]

\* is_recent with an exclusive lower bound
is_recent_exclusive(pub_date, cutoff) == pub_date.kind = "time" /\ pub_date.t > cutoff

\* is_recent without the test that there is a date
is_recent_undated(pub_date, cutoff) == pub_date.t >= cutoff

\* pub_date and pub_date >= cutoff_time
is_recent(pub_date, cutoff) == pub_date.kind = "time" /\ pub_date.t >= cutoff

\* if normalize_url(link) not in found_urls: found_urls.add(normalize_url(link))
add_if_new(normalized, found) == IF normalized \notin found THEN normalized ELSE NoUrl

\* one iteration of the for loop: the URL it adds to found_urls, NoUrl when none
entry_adds(link, pd, found, cutoff) ==
    IF link = NoUrl THEN NoUrl
    ELSE IF pd.raised THEN NoUrl
    ELSE IF is_recent(pd.value, cutoff) THEN add_if_new(normalize_url(link), found)
    ELSE NoUrl

rss_entry_adds(entry, found, cutoff) == entry_adds(entry.link, pub_date_of(entry), found, cutoff)

RssInit ==
    /\ feed \in Feeds
    /\ cutoff_time \in Cutoffs
    /\ found_urls \in {{}, {normalize_url(Link_a_tracked)}}
    /\ rss_i = 0
    /\ rss_pc = "call"
    /\ is_rss = None
    /\ rss_added = <<>>

\* feed = feedparser.parse(url); if not feed.entries: return False
RssParse ==
    /\ rss_pc = "call"
    /\ IF feed = <<>>
       THEN rss_pc' = "returned" /\ is_rss' = FALSE /\ rss_i' = rss_i
       ELSE rss_pc' = "loop" /\ is_rss' = is_rss /\ rss_i' = 1
    /\ UNCHANGED <<feed, cutoff_time, found_urls, rss_added, nu_vars, flt_vars, other_vars>>

\* for entry in feed.entries: ...
RssEntry ==
    /\ rss_pc = "loop"
    /\ rss_i <= Len(feed)
    /\ rss_added' = Append(rss_added, rss_entry_adds(feed[rss_i], found_urls, cutoff_time))
    /\ found_urls' = found_urls \cup ({rss_added'[rss_i]} \ {NoUrl})
    /\ rss_i' = rss_i + 1
    /\ UNCHANGED <<feed, cutoff_time, rss_pc, is_rss, nu_vars, flt_vars, other_vars>>

\* return True
RssReturn ==
    /\ rss_pc = "loop"
    /\ rss_i > Len(feed)
    /\ rss_pc' = "returned"
    /\ is_rss' = TRUE
    /\ UNCHANGED <<feed, cutoff_time, found_urls, rss_i, rss_added, nu_vars, flt_vars, other_vars>>

(***************************************************************************)
(* SpecRss: process_rss_source on every feed of Feeds.                     *)
(***************************************************************************)
SpecRssInit ==
    NuIdle /\ RssInit /\ FltIdle /\ llm = NoLlm /\ DiscIdle /\ ScrIdle /\ LedIdle /\ PipeIdle /\ ExtIdle
SpecRssNext == RssParse \/ RssEntry \/ RssReturn
SpecRss == SpecRssInit /\ [][SpecRssNext]_vars

(***************************************************************************)
(* hermes_discoverer.py: load_sources, load_processed_urls,                *)
(* crawl_html_source and __main__ (lines 191-226).                         *)
(* A registry file is absent, unparsable (yaml.safe_load raises), or holds *)
(* the value yaml.safe_load gives: null, a list, or a mapping with its     *)
(* `sources` value (absent, null, a list of sources, or a string).  A      *)
(* source is what the network serves for it: the entries of its feed, and  *)
(* its HTML page with the pages its links lead to.                         *)
(***************************************************************************)
MaxSources == 2

\* the value of `sources` in a registry
NoSources == [kind |-> "absent", items |-> <<>>]
NullSources == [kind |-> "null", items |-> <<>>]
ListOf(items) == [kind |-> "list", items |-> items]
\* a linked page: whether requests.get succeeds, and its three date signals
\* (article:published_time, publication_date, <time datetime>), each absent
\* (NoTime), unparseable (BadTime) or a date
LinkTo(href, ok, signals) == [href |-> href, ok |-> ok, signals |-> signals]
NoPage == [ok |-> FALSE, links |-> <<>>]
PageOf(links) == [ok |-> TRUE, links |-> links]
SourceOf(name, url, entries, page) ==
    [kind |-> "source", name |-> name, url |-> url, entries |-> entries, page |-> page]
\* what list.extend makes of a string: its characters, none of them a mapping
CharItem(c) == [kind |-> "char", name |-> c, url |-> NoUrl, entries |-> <<>>, page |-> NoPage]
StrOf(chars) == [kind |-> "str", items |-> [i \in 1..Len(chars) |-> CharItem(chars[i])]]

Config(kind, sources) == [kind |-> kind, sources |-> sources]
Unparsable == Config("unparsable", NoSources)

Recent == TimeAt(Now - 3600)
Stale == TimeAt(CutoffOf(Now) - 1)
Url_b == Str_http \o <<":", "/", "/", "b", ".", "c", "/">>
Url_a == Str_http \o <<":", "/", "/", "a", ".", "c", "/">>
Href_a_x == Str_http \o <<":", "/", "/", "a", ".", "c", "/", "x", "?">> \o Str_fbclid \o <<"=", "1">>
Href_a_old == Str_http \o <<":", "/", "/", "a", ".", "c", "/", "o">>
Href_a_down == Str_http \o <<":", "/", "/", "a", ".", "c", "/", "d">>
Href_b_y == Str_http \o <<":", "/", "/", "b", ".", "c", "/", "y">>
Url_www == Str_http \o <<":", "/", "/">> \o Str_www \o <<"a", ".", "c", "/">>
Href_www_w == Str_http \o <<":", "/", "/">> \o Str_www \o <<"a", ".", "c", "/", "w">>
Href_www_m == Str_http \o <<":", "/", "/">> \o Str_www \o <<"a", ".", "c", "/", "m">>
Src_feed ==
    SourceOf("feed", Url_b,
             <<[link |-> Link_b, published_parsed |-> Recent],
               [link |-> Link_a_tracked, published_parsed |-> Recent]>>, NoPage)
Src_stale ==
    SourceOf("stale", Url_a, <<[link |-> Link_a_tracked, published_parsed |-> Stale]>>,
             PageOf(<<LinkTo(Href_a_x, TRUE, <<Recent, NoTime, NoTime>>)>>))
Src_page ==
    SourceOf("page", Url_a, <<>>,
             PageOf(<<LinkTo(Href_a_x, TRUE, <<BadTime, NoTime, Recent>>),
                      LinkTo(Href_a_old, TRUE, <<NoTime, Stale, Recent>>),
                      LinkTo(Href_a_down, FALSE, <<Recent, NoTime, NoTime>>),
                      LinkTo(Href_b_y, TRUE, <<Recent, NoTime, NoTime>>)>>))
Src_dead == SourceOf("dead", Url_b, <<>>, NoPage)
\* a site whose host begins with www.
Src_www ==
    SourceOf("www", Url_www, <<>>,
             PageOf(<<LinkTo(Href_www_w, TRUE, <<Recent, NoTime, NoTime>>),
                      LinkTo(Href_a_old, TRUE, <<Recent, NoTime, NoTime>>),
                      LinkTo(Href_www_m, TRUE, <<NoTime, OutOfRange, Recent>>)>>))
SourceSet == {Src_feed, Src_stale, Src_page, Src_dead, Src_www}
SourceLists == UNION {[1..n -> SourceSet] : n \in 0..MaxSources}

StaticConfigs ==
    {NoConfig, Unparsable, Config("null", NoSources), Config("dict", NoSources),
     Config("dict", StrOf(<<"a", "b">>))}
    \cup {Config("dict", ListOf(l)) : l \in SourceLists}
DynamicConfigs ==
    {NoConfig, Unparsable, Config("null", NoSources), Config("list", NoSources),
     Config("dict", NoSources), Config("dict", NullSources),
     Config("dict", StrOf(<<"a", "b">>)), Config("dict", ListOf(<<>>)),
     Config("dict", ListOf(<<Src_feed>>)), Config("dict", ListOf(<<Src_page>>))}
ProcessedLogs == {NoFile, <<normalize_url(Href_a_x), <<>>, Href_b_y>>}

\* all_sources.extend(sources) under `if sources:`
extend_if_any(all_sources, sources) ==
    IF sources.items # <<>> THEN all_sources \o sources.items ELSE all_sources

Returned(value) == [outcome |-> "return", value |-> value]
Raised == [outcome |-> "raise", value |-> <<>>]
Exited == [outcome |-> "exit", value |-> <<>>]

\* load_static with a registry that is missing or unparsable read as an empty one
load_static_lenient(static) ==
    IF static.kind # "dict" THEN Returned(<<>>)
    ELSE Returned(extend_if_any(<<>>, static.sources))

\* load_sources, lines 57-65: sys.exit(1) without the file; yaml.safe_load raises on
\* an unparsable file; .get raises on a value that is no mapping
load_static(static) ==
    IF static.kind = "nofile" THEN Exited
    ELSE IF static.kind = "unparsable" THEN Raised
    ELSE IF static.kind # "dict" THEN Raised
    ELSE Returned(extend_if_any(<<>>, static.sources))

\* load_sources, lines 68-82
load_dynamic(all_sources, dynamic) ==
    IF dynamic.kind = "nofile" THEN Returned(all_sources)
    ELSE IF dynamic.kind = "unparsable" THEN Raised
    ELSE IF dynamic.kind = "dict" THEN Returned(extend_if_any(all_sources, dynamic.sources))
    ELSE Returned(all_sources)

after_static(loaded, dynamic) ==
    IF loaded.outcome = "return" THEN load_dynamic(loaded.value, dynamic) ELSE loaded

load_sources(static, dynamic) == after_static(load_static(static), dynamic)

\* load_processed_urls
load_processed_urls(log) ==
    IF log = NoFile THEN {} ELSE {log[i] : i \in {j \in 1..Len(log) : log[j] # <<>>}}

\* the characters in code point order, and sorted() on strings
Ascii == <<"%", "+", ".", "/", "0", "1", "2", "3", "4", "5", "6", "7", "8", "9", ":", ";",
           "=", "?", "@", "F", "_", "a", "b", "c", "d", "e", "f", "g", "h", "i", "j", "k",
           "l", "m", "n", "o", "p", "q", "r", "s", "t", "u", "v", "w", "x", "y", "z">>
ord(c) == CHOOSE i \in 1..Len(Ascii) : Ascii[i] = c
RECURSIVE str_less(_, _)
str_less(a, b) ==
    IF b = <<>> THEN FALSE
    ELSE IF a = <<>> THEN TRUE
    ELSE IF Head(a) = Head(b) THEN str_less(Tail(a), Tail(b))
    ELSE ord(Head(a)) < ord(Head(b))
least(S) == CHOOSE x \in S : \A y \in S : x = y \/ str_less(x, y)
RECURSIVE sorted(_)
sorted(S) == IF S = {} THEN <<>> ELSE <<least(S)>> \o sorted(S \ {least(S)})

\* new_urls with the processed URLs left in
new_urls_unfiltered(candidates, processed) == sorted(candidates)

\* line 217
new_urls(candidates, processed) == sorted({url \in candidates : url \notin processed})

\* line 120: date_parser(date_str).astimezone(timezone.utc) of a string that parses
date_of(signal) == IF signal.kind = "overflow" THEN DateRaised ELSE signal

\* find_article_date that prefers the signals of lower priority
find_article_date_reversed(signals) ==
    IF signals[3].kind \in {"time", "overflow"} THEN date_of(signals[3])
    ELSE IF signals[2].kind \in {"time", "overflow"} THEN date_of(signals[2])
    ELSE IF signals[1].kind \in {"time", "overflow"} THEN date_of(signals[1])
    ELSE NoTime

\* find_article_date: the first signal that is present and that date_parser
\* accepts; nothing catches the OverflowError of astimezone
find_article_date(signals) ==
    IF signals[1].kind \in {"time", "overflow"} THEN date_of(signals[1])
    ELSE IF signals[2].kind \in {"time", "overflow"} THEN date_of(signals[2])
    ELSE IF signals[3].kind \in {"time", "overflow"} THEN date_of(signals[3])
    ELSE NoTime

\* lines 160-163: the normalized links on the host of the source that start with http
links_to_check(source) ==
    {normalize_url(source.page.links[i].href) :
        i \in {j \in 1..Len(source.page.links) :
                 /\ urlparse(source.page.links[j].href).netloc = urlparse(source.url).netloc
                 /\ StartsWith(source.page.links[j].href, Str_http)}}

\* what the network serves at a URL of links_to_check
page_at(source, url) ==
    source.page.links[CHOOSE i \in 1..Len(source.page.links) :
                          normalize_url(source.page.links[i].href) = url]

\* lines 170-185: the URL the iteration of one link adds, NoUrl when none
\* lines 170-185: the iteration of one link is left by an exception other than a
\* RequestException
link_raises(url, page, found) ==
    url \notin found /\ page.ok /\ find_article_date(page.signals) = DateRaised

link_adds(url, page, found, cutoff) ==
    IF url \in found THEN NoUrl
    ELSE IF ~page.ok THEN NoUrl
    ELSE IF is_recent(find_article_date(page.signals), cutoff) THEN url
    ELSE NoUrl

\* the fallback taken for every source
crawl_wanted_always(is_feed) == TRUE

\* line 213: if not is_rss
crawl_wanted(is_feed) == ~is_feed

Event(op, src) == [op |-> op, src |-> src]

DiscInit ==
    /\ static_config \in StaticConfigs
    /\ dynamic_config \in DynamicConfigs
    /\ processed_log \in ProcessedLogs
    /\ sources_to_process = <<>>
    /\ processed_urls = {}
    /\ disc_pc = "start"
    /\ src_i = 0
    /\ crawl_links = {}
    /\ disc_exit = NoExit
    /\ disc_log = <<>>

DiscEnd(code) == disc_pc' = "done" /\ disc_exit' = code
\* an exception nothing catches: traceback, exit status 1
DiscCrash == disc_pc' = "crashed" /\ disc_exit' = 1

\* lines 195-201: load_sources(); without sources an empty candidate file, exit 0
LoadSources ==
    /\ disc_pc = "start"
    /\ IF load_sources(static_config, dynamic_config).outcome = "exit"
       THEN DiscEnd(1) /\ UNCHANGED <<sources_to_process, candidate_file, disc_log>>
       ELSE IF load_sources(static_config, dynamic_config).outcome = "raise"
       THEN DiscCrash /\ UNCHANGED <<sources_to_process, candidate_file, disc_log>>
       ELSE /\ sources_to_process' = load_sources(static_config, dynamic_config).value
            /\ IF sources_to_process' = <<>>
               THEN /\ candidate_file' = <<>>
                    /\ disc_log' = Append(disc_log, Event("write", 0))
                    /\ DiscEnd(0)
               ELSE /\ disc_pc' = "loaded"
                    /\ UNCHANGED <<candidate_file, disc_log, disc_exit>>
    /\ UNCHANGED <<static_config, dynamic_config, processed_log, processed_urls, src_i,
                   crawl_links, nu_vars, rss_vars, urls_to_process, pc, idx, article_data,
                   response, answer, passed_thematic, reason_thematic, passed_confirmation,
                   database, saved_count, exit_code, calls, db_len, llm, scr_vars, led_vars,
                   pipe_vars, ext_vars>>

\* lines 203-210: the processed URLs, the cutoff, the empty candidate set
LoadProcessed ==
    /\ disc_pc = "loaded"
    /\ processed_urls' = load_processed_urls(processed_log)
    /\ cutoff_time' = CutoffOf(Now)
    /\ found_urls' = {}
    /\ src_i' = 0
    /\ disc_pc' = "source"
    /\ UNCHANGED <<static_config, dynamic_config, processed_log, sources_to_process,
                   crawl_links, disc_exit, disc_log, feed, rss_i, rss_pc, is_rss, rss_added,
                   nu_vars, flt_vars, llm, scr_vars, led_vars, pipe_vars, ext_vars>>

\* lines 211-212: the next source, and the call of process_rss_source for it
\* (source_config.get raises on an item that is no mapping)
NextSource ==
    /\ disc_pc = "source"
    /\ IF src_i = Len(sources_to_process)
       THEN /\ disc_pc' = "write"
            /\ UNCHANGED <<src_i, disc_exit, disc_log, feed, rss_i, rss_pc, is_rss, rss_added>>
       ELSE /\ src_i' = src_i + 1
            /\ IF sources_to_process[src_i'].kind # "source"
               THEN /\ DiscCrash
                    /\ UNCHANGED <<disc_log, feed, rss_i, rss_pc, is_rss, rss_added>>
               ELSE /\ disc_pc' = "rss"
                    /\ disc_log' = Append(disc_log, Event("rss", src_i'))
                    /\ feed' = sources_to_process[src_i'].entries
                    /\ rss_pc' = "call"
                    /\ rss_i' = 0
                    /\ is_rss' = None
                    /\ rss_added' = <<>>
                    /\ UNCHANGED disc_exit
    /\ UNCHANGED <<static_config, dynamic_config, processed_log, sources_to_process,
                   processed_urls, crawl_links, cutoff_time, found_urls, nu_vars, flt_vars,
                   llm, scr_vars, led_vars, pipe_vars, ext_vars>>

\* lines 213-214 and 157-163: process_rss_source has returned; when it returned False,
\* crawl_html_source is called and fetches the page of the source
AfterRss ==
    /\ disc_pc = "rss"
    /\ rss_pc = "returned"
    /\ IF ~crawl_wanted(is_rss)
       THEN disc_pc' = "source" /\ UNCHANGED <<disc_log, crawl_links>>
       ELSE /\ disc_log' = Append(disc_log, Event("crawl", src_i))
            /\ IF sources_to_process[src_i].page.ok
               THEN /\ crawl_links' = links_to_check(sources_to_process[src_i])
                    /\ disc_pc' = "links"
               ELSE disc_pc' = "source" /\ UNCHANGED crawl_links
    /\ UNCHANGED <<static_config, dynamic_config, processed_log, sources_to_process,
                   processed_urls, src_i, disc_exit, rss_vars, nu_vars, flt_vars, llm,
                   scr_vars, led_vars, pipe_vars, ext_vars>>

\* lines 167-185: one link of links_to_check (a set: in any order)
CrawlLink ==
    /\ disc_pc = "links"
    /\ \E url \in crawl_links :
         IF link_raises(url, page_at(sources_to_process[src_i], url), found_urls)
         THEN DiscCrash /\ UNCHANGED <<crawl_links, found_urls>>
         ELSE /\ crawl_links' = crawl_links \ {url}
              /\ found_urls' = found_urls \cup
                    ({link_adds(url, page_at(sources_to_process[src_i], url), found_urls,
                                cutoff_time)} \ {NoUrl})
              /\ UNCHANGED <<disc_pc, disc_exit>>
    /\ UNCHANGED <<static_config, dynamic_config, processed_log, sources_to_process,
                   processed_urls, src_i, disc_log, feed, cutoff_time,
                   rss_i, rss_pc, is_rss, rss_added, nu_vars, flt_vars, llm, scr_vars,
                   led_vars, pipe_vars, ext_vars>>

\* line 186: crawl_html_source returns
CrawlReturn ==
    /\ disc_pc = "links"
    /\ crawl_links = {}
    /\ disc_pc' = "source"
    /\ UNCHANGED <<static_config, dynamic_config, processed_log, sources_to_process,
                   processed_urls, src_i, crawl_links, disc_exit, disc_log, rss_vars,
                   nu_vars, flt_vars, llm, scr_vars, led_vars, pipe_vars, ext_vars>>

\* lines 217-226: the new URLs, sorted, written to candidate_urls.txt
WriteCandidates ==
    /\ disc_pc = "write"
    /\ candidate_file' = new_urls(found_urls, processed_urls)
    /\ disc_log' = Append(disc_log, Event("write", 0))
    /\ DiscEnd(0)
    /\ UNCHANGED <<static_config, dynamic_config, processed_log, sources_to_process,
                   processed_urls, src_i, crawl_links, rss_vars, nu_vars, urls_to_process,
                   pc, idx, article_data, response, answer, passed_thematic,
                   reason_thematic, passed_confirmation, database, saved_count, exit_code,
                   calls, db_len, llm, scr_vars, led_vars, pipe_vars, ext_vars>>

(***************************************************************************)
(* SpecDisc: one discovery run.                                            *)
(***************************************************************************)
SpecDiscInit ==
    NuIdle /\ RssIdle /\ FltIdle /\ llm = NoLlm /\ DiscInit /\ ScrIdle /\ LedIdle /\ PipeIdle /\ ExtIdle
SpecDiscNext ==
    \/ LoadSources
    \/ LoadProcessed
    \/ NextSource
    \/ RssParse
    \/ RssEntry
    \/ RssReturn
    \/ AfterRss
    \/ CrawlLink
    \/ CrawlReturn
    \/ WriteCandidates
SpecDisc == SpecDiscInit /\ [][SpecDiscNext]_vars

(***************************************************************************)
(* SpecDate: one iteration of the loop of crawl_html_source (lines 167-185) *)
(* on every linked page: its three date signals, in the order of           *)
(* date_selectors, each absent or empty (NoTime), a string date_parser     *)
(* rejects (BadTime), a date out of range (OutOfRange), or a date.         *)
(***************************************************************************)
Signals == {NoTime, BadTime, OutOfRange, Stale, TimeAt(CutoffOf(Now)), Recent}
LinkedPages == {LinkTo(Href_a_x, ok, signals) : ok \in BOOLEAN, signals \in [1..3 -> Signals]}

DateInit ==
    /\ date_page \in LinkedPages
    /\ date_found \in {{}, {normalize_url(Href_a_x)}}
    /\ date_pc = "link"
    /\ date_out = None
    /\ date_added = NoUrl

\* lines 170-185 for article_url = normalize_url(href)
CheckLink ==
    /\ date_pc = "link"
    /\ date_pc' = "checked"
    /\ date_out' = IF normalize_url(date_page.href) \notin date_found /\ date_page.ok
                   THEN find_article_date(date_page.signals) ELSE None
    /\ date_added' = link_adds(normalize_url(date_page.href), date_page, date_found,
                               CutoffOf(Now))
    /\ UNCHANGED <<date_page, date_found, nu_vars, rss_vars, flt_vars, llm, disc_vars,
                   scr_vars, led_vars, pipe_vars, gui_vars, enh_vars>>

SpecDateInit ==
    /\ NuIdle /\ RssIdle /\ FltIdle /\ llm = NoLlm /\ DiscIdle /\ ScrIdle /\ LedIdle /\ PipeIdle
    /\ GuiInit
    /\ EnhIdle
    /\ DateInit
SpecDateNext == CheckLink
SpecDate == SpecDateInit /\ [][SpecDateNext]_vars

(***************************************************************************)
(* scraper_module.py: get_article_content, lines 113-169.                  *)
(* A page is its title and the lengths of the texts of its <p> elements    *)
(* (after the removal of script, style, nav, header, footer and aside);    *)
(* the text extracted from it is the list of the paragraphs kept.          *)
(* scr_web is what the URL gives: to requests.get (a RequestException, or  *)
(* a page), whether the Selenium libraries could be imported, and what the *)
(* browser gives (an exception, or the rendered page).                     *)
(***************************************************************************)
MIN_CONTENT_LENGTH == 200
MIN_PARAGRAPH_LENGTH == 50
MaxParagraphs == 2

FetchError == [kind |-> "error", title |-> <<>>, paragraphs |-> <<>>]
Page(title, paragraphs) == [kind |-> "page", title |-> title, paragraphs |-> paragraphs]
ParagraphLengths == {49, 50, 99, 100, 200}
PageTexts == UNION {[1..n -> ParagraphLengths] : n \in 0..MaxParagraphs}
Fetches == {FetchError} \cup {Page(<<"T">>, p) : p \in PageTexts}

RECURSIVE total(_)
total(lengths) == IF lengths = <<>> THEN 0 ELSE Head(lengths) + total(Tail(lengths))
\* len("\n".join(texts))
joined_length(lengths) == IF lengths = <<>> THEN 0 ELSE total(lengths) + Len(lengths) - 1

NoText == [ok |-> FALSE, paragraphs |-> <<>>]
long_enough(kept) ==
    IF joined_length(kept) >= MIN_CONTENT_LENGTH THEN [ok |-> TRUE, paragraphs |-> kept]
    ELSE NoText
\* extract_text_from_soup, lines 62-70
extract_text_from_soup(paragraphs) ==
    long_enough(SelectSeq(paragraphs, LAMBDA n : n >= MIN_PARAGRAPH_LENGTH))

Article(title, text) == [ok |-> TRUE, title |-> title, content |-> text.paragraphs]
Falls == [returned |-> FALSE, value |-> NoArticle]
Returns(value) == [returned |-> TRUE, value |-> value]

\* the fast strategy without its return: the browser is started in any case
fast_attempt_through(fetch) == Falls

\* the fast strategy with its failure reported at once
fast_attempt_final(fetch) ==
    IF fetch.kind = "error" THEN Returns(NoArticle)
    ELSE IF extract_text_from_soup(fetch.paragraphs).ok
    THEN Returns(Article(fetch.title, extract_text_from_soup(fetch.paragraphs)))
    ELSE Returns(NoArticle)

\* lines 121-134: the fast strategy returns its article, or falls through
fast_attempt(fetch) ==
    IF fetch.kind = "error" THEN Falls
    ELSE IF extract_text_from_soup(fetch.paragraphs).ok
    THEN Returns(Article(fetch.title, extract_text_from_soup(fetch.paragraphs)))
    ELSE Falls

\* lines 143-169: the browser strategy returns its article, or None
browser_attempt(rendered) ==
    IF rendered.kind = "error" THEN NoArticle
    ELSE IF extract_text_from_soup(rendered.paragraphs).ok
    THEN Article(rendered.title, extract_text_from_soup(rendered.paragraphs))
    ELSE NoArticle

ScrInit ==
    /\ scr_web \in [fast : Fetches, SELENIUM_AVAILABLE : BOOLEAN, browser : Fetches]
    /\ scr_pc = "fast"
    /\ scr_result = NoArticle
    /\ scr_tried = <<>>

\* lines 120-134
ScrFast ==
    /\ scr_pc = "fast"
    /\ scr_tried' = Append(scr_tried, "requests")
    /\ IF fast_attempt(scr_web.fast).returned
       THEN scr_pc' = "returned" /\ scr_result' = fast_attempt(scr_web.fast).value
       ELSE scr_pc' = "fallback" /\ UNCHANGED scr_result
    /\ UNCHANGED <<scr_web, nu_vars, rss_vars, flt_vars, llm, disc_vars, led_vars, pipe_vars, ext_vars>>

\* lines 137-141
ScrFallback ==
    /\ scr_pc = "fallback"
    /\ IF scr_web.SELENIUM_AVAILABLE
       THEN scr_pc' = "browser" /\ UNCHANGED scr_result
       ELSE scr_pc' = "returned" /\ scr_result' = NoArticle
    /\ UNCHANGED <<scr_web, scr_tried, nu_vars, rss_vars, flt_vars, llm, disc_vars, led_vars,
                   pipe_vars, ext_vars>>

\* lines 143-169
ScrBrowser ==
    /\ scr_pc = "browser"
    /\ scr_tried' = Append(scr_tried, "selenium")
    /\ scr_result' = browser_attempt(scr_web.browser)
    /\ scr_pc' = "returned"
    /\ UNCHANGED <<scr_web, nu_vars, rss_vars, flt_vars, llm, disc_vars, led_vars, pipe_vars, ext_vars>>

(***************************************************************************)
(* SpecScrape: get_article_content on one URL.                             *)
(***************************************************************************)
SpecScrapeInit ==
    NuIdle /\ RssIdle /\ FltIdle /\ llm = NoLlm /\ DiscIdle /\ ScrInit /\ LedIdle /\ PipeIdle /\ ExtIdle
SpecScrapeNext == ScrFast \/ ScrFallback \/ ScrBrowser
SpecScrape == SpecScrapeInit /\ [][SpecScrapeNext]_vars

(***************************************************************************)
(* filter_and_save.py: the LLM wrappers.                                   *)
(* A Stage A response is a sequence of tokens: CH is the literal           *)
(* <|channel|>final<|message|>, "Score:" and "Justification:" are the      *)
(* literals of the regular expression (with a lower-case spelling, which   *)
(* re.IGNORECASE accepts too), digits are single characters, " " and NL    *)
(* are white space, every other token is text without a newline.           *)
(* What the capability does when called is [kind, text]: kind "text" with  *)
(* the generated text, or kind "raise" when the call (or reading the       *)
(* response object) raises an Exception.                                   *)
(***************************************************************************)
RELEVANCE_THRESHOLD == 7

\* RELEVANCE_GRAMMAR, lines 46-50: the final-channel marker, "Score: ", a score
\* "10" | [1-9], ". Justification: ", and a justification without a newline
GrammarHead(d) == <<"<|channel|>final<|message|>", "Score:", " ">> \o d
                  \o <<".", " ", "Justification:", " ">>
GrammarScores == {<<"1">>, <<"2">>, <<"3">>, <<"4">>, <<"5">>, <<"6">>, <<"7">>, <<"8">>,
                  <<"9">>, <<"1", "0">>}
matches_grammar(text) ==
    \E d \in GrammarScores :
        /\ StartsWith(text, GrammarHead(d))
        /\ \A i \in (Len(GrammarHead(d)) + 1)..Len(text) : text[i] # "\n"

CH == "<|channel|>final<|message|>"
NL == "\n"
WS == {" ", NL}
ScoreToks == {"Score:", "score:"}
JustToks == {"Justification:", "justification:"}
DigitChars == <<"0", "1", "2", "3", "4", "5", "6", "7", "8", "9">>

Raise == [kind |-> "raise", text |-> <<>>]
Text(t) == [kind |-> "text", text |-> t]

\* the least index >= i whose token is not in S (Len + 1 when there is none)
FirstNotIn(s, i, S) ==
    IF \E j \in i..Len(s) : s[j] \notin S
    THEN CHOOSE j \in i..Len(s) : s[j] \notin S /\ \A k \in i..(j - 1) : s[k] \in S
    ELSE Len(s) + 1

\* the least index >= i whose token is in S (Len + 1 when there is none)
FirstIn(s, i, S) ==
    IF \E j \in i..Len(s) : s[j] \in S
    THEN CHOOSE j \in i..Len(s) : s[j] \in S /\ \A k \in i..(j - 1) : s[k] \notin S
    ELSE Len(s) + 1

\* the greatest index in lo..hi whose token is in S (0 when there is none)
LastIn(s, lo, hi, S) ==
    IF \E j \in lo..hi : s[j] \in S
    THEN CHOOSE j \in lo..hi : s[j] \in S /\ \A k \in (j + 1)..hi : s[k] \notin S
    ELSE 0

\* the greatest index whose token is not in S (0 when there is none)
LastNotIn(s, S) ==
    IF \E j \in 1..Len(s) : s[j] \notin S
    THEN CHOOSE j \in 1..Len(s) : s[j] \notin S /\ \A k \in (j + 1)..Len(s) : s[k] \in S
    ELSE 0

\* str.strip()
strip(s) == SubSeq(s, FirstNotIn(s, 1, WS), LastNotIn(s, WS))

\* s contains sub as a contiguous run: sub in s
Contains(s, sub) == \E i \in 0..(Len(s) - Len(sub)) : SubSeq(s, i + 1, i + Len(sub)) = sub

\* int(text) of a run of digits, and str(n)
DigitVal(c) == (CHOOSE i \in 1..10 : DigitChars[i] = c) - 1

RECURSIVE ToInt(_)
ToInt(digits) ==
    IF digits = <<>> THEN 0
    ELSE 10 * ToInt(Take(digits, Len(digits) - 1)) + DigitVal(digits[Len(digits)])

RECURSIVE ToStr(_)
ToStr(n) ==
    IF n < 10 THEN <<DigitChars[n + 1]>>
    ELSE ToStr(n \div 10) \o <<DigitChars[(n % 10) + 1]>>

\* re.search(r"<\|channel\|>final<\|message\|>(.*)", text, re.DOTALL): group(1)
final_match(text) ==
    IF \E i \in 1..Len(text) : text[i] = CH
    THEN [ok |-> TRUE, group1 |-> Drop(text, FirstIn(text, 1, {CH}))]
    ELSE [ok |-> FALSE, group1 |-> <<>>]

\* re.search(r"Score:\s*(\d+).*Justification:\s*(.*)", s, re.IGNORECASE), tried
\* at position p.  q: where \s* ends; dEnd: where the greedy \d+ ends; j: the
\* last Justification: of the line (.* is greedy and stops at a newline);
\* r: where the second \s* ends; group 2 runs to the end of that line.
NoMatch == [ok |-> FALSE, group1 |-> <<>>, group2 |-> <<>>]

match_groups(s, q, dEnd, r) ==
    [ok |-> TRUE, group1 |-> SubSeq(s, q, dEnd - 1),
     group2 |-> SubSeq(s, r, FirstIn(s, r, {NL}) - 1)]

match_just(s, q, dEnd, j) ==
    IF j = 0 THEN NoMatch ELSE match_groups(s, q, dEnd, FirstNotIn(s, j + 1, WS))

match_digits(s, q, dEnd) ==
    IF dEnd = q THEN NoMatch
    ELSE match_just(s, q, dEnd, LastIn(s, dEnd, FirstIn(s, dEnd, {NL}) - 1, JustToks))

match_score(s, q) == match_digits(s, q, FirstNotIn(s, q, Digits))

match_at(s, p) ==
    IF s[p] \in ScoreToks THEN match_score(s, FirstNotIn(s, p + 1, WS)) ELSE NoMatch

RECURSIVE score_search(_, _)
first_match(m, s, p) == IF m.ok THEN m ELSE score_search(s, p + 1)

score_search(s, p) == IF p > Len(s) THEN NoMatch ELSE first_match(match_at(s, p), s, p)

\* the reasons _check_thematic_relevance returns
Reason_NoFinal == <<"LLM did not produce a 'final' channel.">>
Reason_BadFormat == <<"LLM 'final' channel had unexpected format.">>
Reason_Error == <<"LLM analysis error.">>
ScoreOutOfTen(score) == <<"Score: ">> \o ToStr(score) \o <<"/10">>
Reason_High(score, justification) ==
    <<"High thematic relevance (">> \o ScoreOutOfTen(score)
    \o <<"). Justification: ">> \o justification
Reason_Low(score) == <<"Low thematic relevance (">> \o ScoreOutOfTen(score) \o <<").">>

Verdict(passed, reason) == [raised |-> FALSE, passed |-> passed, reason |-> reason]

\* thematic_verdict with the threshold one too low, and with the comparison strict
thematic_verdict_low(score, justification) ==
    IF score >= RELEVANCE_THRESHOLD - 1 THEN Verdict(TRUE, Reason_High(score, justification))
    ELSE Verdict(FALSE, Reason_Low(score))

thematic_verdict_strict(score, justification) ==
    IF score > RELEVANCE_THRESHOLD THEN Verdict(TRUE, Reason_High(score, justification))
    ELSE Verdict(FALSE, Reason_Low(score))

\* score >= RELEVANCE_THRESHOLD
thematic_verdict(score, justification) ==
    IF score >= RELEVANCE_THRESHOLD THEN Verdict(TRUE, Reason_High(score, justification))
    ELSE Verdict(FALSE, Reason_Low(score))

score_verdict(m) ==
    IF ~m.ok THEN Verdict(FALSE, Reason_BadFormat)
    ELSE thematic_verdict(ToInt(m.group1), strip(m.group2))

final_verdict(fm) ==
    IF ~fm.ok THEN Verdict(FALSE, Reason_NoFinal)
    ELSE score_verdict(score_search(strip(fm.group1), 1))

\* _check_thematic_relevance: the try block on the outcome of the LLM call,
\* the except clause when the call raised
_check_thematic_relevance(outcome) ==
    IF outcome.kind = "raise" THEN Verdict(FALSE, Reason_Error)
    ELSE final_verdict(final_match(strip(outcome.text)))

\* str.lower() on the characters of an answer
lower_char(c) ==
    IF c = "Y" THEN "y" ELSE IF c = "E" THEN "e" ELSE IF c = "S" THEN "s"
    ELSE IF c = "N" THEN "n" ELSE IF c = "O" THEN "o" ELSE c

lower(s) == [i \in 1..Len(s) |-> lower_char(s[i])]

Str_yes == <<"y", "e", "s">>

\* 'yes' in answer.lower()
says_yes(ans) == Contains(lower(ans), Str_yes)

\* _confirm_keyword_relevance without its except clause
_confirm_keyword_relevance_uncaught(outcome) ==
    IF outcome.kind = "raise" THEN [raised |-> TRUE, passed |-> FALSE]
    ELSE [raised |-> FALSE, passed |-> says_yes(strip(outcome.text))]

\* _confirm_keyword_relevance: [raised, passed]
_confirm_keyword_relevance(outcome) ==
    IF outcome.kind = "raise" THEN [raised |-> FALSE, passed |-> FALSE]
    ELSE [raised |-> FALSE, passed |-> says_yes(strip(outcome.text))]

\* re.sub(r"^\s*Here is a summary.*?:", "", summary, flags=re.IGNORECASE).strip()
SummaryLead == "Here is a summary:"
drop_lead(s, i) == IF i <= Len(s) /\ s[i] = SummaryLead THEN strip(Drop(s, i)) ELSE strip(s)

Summary_Failed == <<"Summarization failed due to an error.">>

\* summarize_with_llm: [raised, summary]
summarize_with_llm(outcome) ==
    IF outcome.kind = "raise" THEN [raised |-> FALSE, summary |-> Summary_Failed]
    ELSE [raised |-> FALSE,
          summary |-> drop_lead(strip(outcome.text), FirstNotIn(strip(outcome.text), 1, WS))]

\* datetime.now().strftime('%Y-%m-%d')
Today == <<"2025-01-01">>

\* append_to_database with the file opened in "w" mode
append_to_database_truncating(db, article) ==
    <<[Title |-> article.title, URL |-> article.url, Date_Processed |-> Today,
       Reason |-> article.reason, Summary |-> article.summary]>>

\* append_to_database: the record written at the end of database.md
append_to_database(db, article) ==
    Append(db, [Title |-> article.title, URL |-> article.url, Date_Processed |-> Today,
                Reason |-> article.reason, Summary |-> article.summary])

\* article_data and article_data.get("content")
scraped(data) == data.ok /\ data.content # <<>>

(***************************************************************************)
(* filter_and_save.py __main__, lines 171-233: the filtering run.          *)
(***************************************************************************)
MaxCandidates == 2

CandidateNames == <<<<"u", "1">>, <<"u", "2">>, <<"u", "3">>, <<"u", "4">>>>
\* candidate_urls.txt as hermes_discoverer.py writes it: sorted, no line twice
SortedLists ==
    {f \in UNION {[1..n -> 1..MaxCandidates] : n \in 0..MaxCandidates} :
        \A i \in 1..(Len(f) - 1) : f[i] < f[i + 1]}
CandidateFiles ==
    {NoFile} \cup {[i \in 1..Len(f) |-> CandidateNames[f[i]]] : f \in SortedLists}
    \cup {<<<<>>>>}

\* what the capability may do when asked Stage A
DigitStrs == {<<>>, <<"0">>, <<"3">>, <<"6">>, <<"7">>, <<"8">>, <<"1", "0">>, <<"4", "2">>}
ResponseBodies ==
    {sc \o d \o sep \o j :
        sc \in {<<"Score:", " ">>, <<"score:">>},
        d \in DigitStrs,
        sep \in {<<".", " ">>, <<NL>>},
        j \in {<<"Justification:", " ", "matches theme">>, <<"Justification:", NL, "t">>,
               <<"t">>}}
    \cup {<<"I think it's relevant">>}
Responses == {pre \o body : pre \in {<<>>, <<CH>>}, body \in ResponseBodies}
StageAOutcomes == {Raise} \cup {Text(r) : r \in Responses}

\* what the capability may do when asked Stage B
Answers == {<<"Y", "e", "s">>, <<"N", "o">>, <<"Y", "E", "S">>, <<"Y", "e", "s", ".">>,
            <<"e", "y", "e", "s">>, <<>>}
StageBOutcomes == {Raise} \cup {Text(a) : a \in Answers}

\* what the capability may do when asked for the summary
SummaryOutcomes == {Raise, Text(<<"- point">>), Text(<<SummaryLead, NL, "- point">>)}

\* what get_article_content may return: None, or a title and a non-empty content
ArticleOutcomes == {NoArticle, [ok |-> TRUE, title |-> <<"T">>, content |-> <<"body">>]}

\* the capability behind llm: any model (every outcome above), or a stub that answers
\* Stage A with a score of 8 or of 3, Stage B with Yes or No, and gives a summary
Llm_Any == "any"
Llm_Stub == "stub"
StubStageA == {Text(<<CH, "Score:", " ", "8", ".", " ", "Justification:", " ", "matches theme">>),
               Text(<<CH, "Score:", " ", "3", ".", " ", "Justification:", " ", "matches theme">>)}
StubStageB == {Text(<<"Y", "e", "s">>), Text(<<"N", "o">>)}
StubSummary == {Text(<<"- point">>)}
stage_a_outcomes(l) == IF l = Llm_Stub THEN StubStageA ELSE StageAOutcomes
stage_b_outcomes(l) == IF l = Llm_Stub THEN StubStageB ELSE StageBOutcomes
summary_outcomes(l) == IF l = Llm_Stub THEN StubSummary ELSE SummaryOutcomes

OldRecord == [Title |-> <<"old">>, URL |-> <<"u", "0">>, Date_Processed |-> <<"2024-12-31">>,
              Reason |-> <<"old reason">>, Summary |-> <<"- old">>]

FltInit ==
    /\ candidate_file \in CandidateFiles
    /\ urls_to_process = <<>>
    /\ pc = "start"
    /\ idx = 0
    /\ article_data = NoArticle
    /\ response = NoCall
    /\ answer = NoCall
    /\ passed_thematic = FALSE
    /\ reason_thematic = NoStr
    /\ passed_confirmation = FALSE
    /\ database \in {<<>>, <<OldRecord>>}
    /\ saved_count = 0
    /\ exit_code = NoExit
    /\ calls = NoCalls
    /\ db_len = [run |-> Len(database), iter |-> Len(database)]

\* the lines of the file with the blank ones kept
all_lines(lines) == lines

\* [line.strip() for line in f if line.strip()]
nonblank_lines(lines) == SelectSeq(lines, LAMBDA l : l # <<>>)

Exit(code) == pc' = "done" /\ exit_code' = code

\* lines 174-183: no candidate file, or no candidate in it: sys.exit(0)
ReadCandidates ==
    /\ pc = "start"
    /\ IF candidate_file = NoFile
       THEN Exit(0) /\ UNCHANGED urls_to_process
       ELSE /\ urls_to_process' = nonblank_lines(candidate_file)
            /\ IF urls_to_process' = <<>> THEN Exit(0)
               ELSE pc' = "load" /\ UNCHANGED exit_code
    /\ UNCHANGED <<candidate_file, idx, article_data, response, answer, passed_thematic,
                   reason_thematic, passed_confirmation, database, saved_count, calls,
                   db_len, nu_vars, rss_vars, other_vars>>

\* lines 185-192: load_llm() and the knowledge base; either may end the run with 1
LoadModel ==
    /\ pc = "load"
    /\ \E llm_loaded \in BOOLEAN, knowledge_base \in {<<>>, <<"KB">>} :
         IF llm_loaded /\ knowledge_base # <<>>
         THEN pc' = "next" /\ saved_count' = 0 /\ UNCHANGED exit_code
         ELSE Exit(1) /\ UNCHANGED saved_count
    /\ UNCHANGED <<candidate_file, urls_to_process, idx, article_data, response, answer,
                   passed_thematic, reason_thematic, passed_confirmation, database, calls,
                   db_len, nu_vars, rss_vars, other_vars>>

\* line 194: for url in urls_to_process
ForNext ==
    /\ pc = "next"
    /\ IF idx < Len(urls_to_process)
       THEN /\ idx' = idx + 1
            /\ pc' = "scrape"
            /\ article_data' = NoArticle
            /\ response' = NoCall
            /\ answer' = NoCall
            /\ passed_thematic' = FALSE
            /\ reason_thematic' = NoStr
            /\ passed_confirmation' = FALSE
            /\ calls' = NoCalls
            /\ db_len' = [db_len EXCEPT !.iter = Len(database)]
       ELSE /\ pc' = "report"
            /\ UNCHANGED <<idx, article_data, response, answer, passed_thematic,
                           reason_thematic, passed_confirmation, calls, db_len>>
    /\ UNCHANGED <<candidate_file, urls_to_process, database, saved_count, exit_code,
                   nu_vars, rss_vars, other_vars>>

\* lines 196-199: get_article_content(url); a failed scrape continues the loop
Scrape ==
    /\ pc = "scrape"
    /\ article_data' \in ArticleOutcomes
    /\ pc' = IF scraped(article_data') THEN "stageA" ELSE "next"
    /\ UNCHANGED <<candidate_file, urls_to_process, idx, response, answer, passed_thematic,
                   reason_thematic, passed_confirmation, database, saved_count, exit_code,
                   calls, db_len, nu_vars, rss_vars, other_vars>>

\* an exception that leaves a wrapper is not caught by the loop: the run dies
Crash == pc' = "crashed" /\ exit_code' = 1

\* lines 206-210: Step A; a failed verdict continues the loop
StageA ==
    /\ pc = "stageA"
    /\ response' \in stage_a_outcomes(llm)
    /\ calls' = [calls EXCEPT !.a = @ + 1]
    /\ IF _check_thematic_relevance(response').raised
       THEN Crash /\ UNCHANGED <<passed_thematic, reason_thematic>>
       ELSE /\ passed_thematic' = _check_thematic_relevance(response').passed
            /\ reason_thematic' = _check_thematic_relevance(response').reason
            /\ pc' = IF passed_thematic' THEN "stageB" ELSE "next"
            /\ UNCHANGED exit_code
    /\ UNCHANGED <<candidate_file, urls_to_process, idx, article_data, answer,
                   passed_confirmation, database, saved_count, db_len, nu_vars, rss_vars, other_vars>>

\* lines 214-216, 227-228: Step B
StageB ==
    /\ pc = "stageB"
    /\ answer' \in stage_b_outcomes(llm)
    /\ calls' = [calls EXCEPT !.b = @ + 1]
    /\ IF _confirm_keyword_relevance(answer').raised
       THEN Crash /\ UNCHANGED passed_confirmation
       ELSE /\ passed_confirmation' = _confirm_keyword_relevance(answer').passed
            /\ pc' = IF passed_confirmation' THEN "save" ELSE "sleep"
            /\ UNCHANGED exit_code
    /\ UNCHANGED <<candidate_file, urls_to_process, idx, article_data, response,
                   passed_thematic, reason_thematic, database, saved_count, db_len,
                   nu_vars, rss_vars, other_vars>>

\* lines 217-226: the summary, the record, the count
Save ==
    /\ pc = "save"
    /\ calls' = [calls EXCEPT !.s = @ + 1]
    /\ \E outcome \in summary_outcomes(llm) :
         IF summarize_with_llm(outcome).raised
         THEN Crash /\ UNCHANGED <<database, saved_count>>
         ELSE /\ database' = append_to_database(database,
                    [title |-> article_data.title, url |-> urls_to_process[idx],
                     reason |-> reason_thematic,
                     summary |-> summarize_with_llm(outcome).summary])
              /\ saved_count' = saved_count + 1
              /\ pc' = "sleep"
              /\ UNCHANGED exit_code
    /\ UNCHANGED <<candidate_file, urls_to_process, idx, article_data, response, answer,
                   passed_thematic, reason_thematic, passed_confirmation, db_len,
                   nu_vars, rss_vars, other_vars>>

\* line 230: time.sleep(1), reached only when Step B was asked
Sleep ==
    /\ pc = "sleep"
    /\ pc' = "next"
    /\ UNCHANGED <<candidate_file, urls_to_process, idx, article_data, response, answer,
                   passed_thematic, reason_thematic, passed_confirmation, database,
                   saved_count, exit_code, calls, db_len, nu_vars, rss_vars, other_vars>>

\* lines 232-233: the report of saved_count; the script ends
Report ==
    /\ pc = "report"
    /\ Exit(0)
    /\ UNCHANGED <<candidate_file, urls_to_process, idx, article_data, response, answer,
                   passed_thematic, reason_thematic, passed_confirmation, database,
                   saved_count, calls, db_len, nu_vars, rss_vars, other_vars>>

(***************************************************************************)
(* Spec: one filtering run.                                                *)
(***************************************************************************)
Init ==
    NuIdle /\ RssIdle /\ FltInit /\ llm = Llm_Any /\ DiscIdle /\ ScrIdle /\ LedIdle /\ PipeIdle /\ ExtIdle
Next ==
    \/ ReadCandidates
    \/ LoadModel
    \/ ForNext
    \/ Scrape
    \/ StageA
    \/ StageB
    \/ Save
    \/ Sleep
    \/ Report
Spec == Init /\ [][Next]_vars

(***************************************************************************)
(* SpecPipe: successive pipeline runs, as run_hermes.py starts them: the   *)
(* scripts one after the other, each a new process, the next only after a  *)
(* return code of 0 (run_scripts_sequentially, lines 171-203).  Of the     *)
(* scripts, hermes_discoverer.py and filter_and_save.py are modelled; the  *)
(* files (the registries, processed_urls.log, candidate_urls.txt,          *)
(* database.md) are what one process leaves to the next.  The sources, the *)
(* clock and the LLM stub are the same in every run.                       *)
(***************************************************************************)
MaxRuns == 2

PipeConfigs ==
    {NoConfig, Config("dict", ListOf(<<Src_page>>)), Config("dict", ListOf(<<Src_feed>>)),
     Config("dict", ListOf(<<Src_www, Src_feed>>))}

PipeInit ==
    /\ NuIdle /\ RssIdle /\ FltIdle /\ ScrIdle /\ LedIdle /\ ExtIdle
    /\ llm = Llm_Stub
    /\ static_config \in PipeConfigs
    /\ dynamic_config \in {NoConfig, Config("dict", ListOf(<<Src_feed>>))}
    /\ processed_log \in ProcessedLogs
    /\ sources_to_process = <<>>
    /\ processed_urls = {}
    /\ disc_pc = "start"
    /\ src_i = 0
    /\ crawl_links = {}
    /\ disc_exit = NoExit
    /\ disc_log = <<>>
    /\ run = 1
    /\ evaluated = {}

\* run_scripts_sequentially, lines 177-189: hermes_discoverer.py returned 0, and
\* filter_and_save.py is started
StartFilter ==
    /\ disc_pc = "done"
    /\ disc_exit = 0
    /\ pc = "idle"
    /\ pc' = "start"
    /\ db_len' = [run |-> Len(database), iter |-> Len(database)]
    /\ UNCHANGED <<candidate_file, urls_to_process, idx, article_data, response, answer,
                   passed_thematic, reason_thematic, passed_confirmation, database,
                   saved_count, exit_code, calls, nu_vars, rss_vars, other_vars>>

\* the discovery script returned non-zero and the pipeline halted (lines 191-197)
DiscoveryFailed == disc_pc \in {"done", "crashed"} /\ disc_exit # 0 /\ pc = "idle"
\* filter_and_save.py has ended
FilterEnded == pc \in {"done", "crashed"}
\* the URLs the loop of the filtering run has taken up
EvaluatedInRun == {urls_to_process[i] : i \in 1..idx}

\* start_task, lines 125-154, after task_finished: the next pipeline run; its
\* processes start from the files the run before left
NextRun ==
    /\ DiscoveryFailed \/ FilterEnded
    /\ run < MaxRuns
    /\ run' = run + 1
    /\ evaluated' = evaluated \cup EvaluatedInRun
    /\ disc_pc' = "start"
    /\ sources_to_process' = <<>>
    /\ processed_urls' = {}
    /\ src_i' = 0
    /\ crawl_links' = {}
    /\ disc_exit' = NoExit
    /\ disc_log' = <<>>
    /\ feed' = <<>>
    /\ cutoff_time' = 0
    /\ found_urls' = {}
    /\ rss_i' = 0
    /\ rss_pc' = "idle"
    /\ is_rss' = None
    /\ rss_added' = <<>>
    /\ pc' = "idle"
    /\ urls_to_process' = <<>>
    /\ idx' = 0
    /\ article_data' = NoArticle
    /\ response' = NoCall
    /\ answer' = NoCall
    /\ passed_thematic' = FALSE
    /\ reason_thematic' = NoStr
    /\ passed_confirmation' = FALSE
    /\ saved_count' = 0
    /\ exit_code' = NoExit
    /\ calls' = NoCalls
    /\ db_len' = [run |-> 0, iter |-> 0]
    /\ UNCHANGED <<static_config, dynamic_config, processed_log, candidate_file, database,
                   llm, nu_vars, scr_vars, led_vars, ext_vars>>

SpecPipeNext ==
    \/ LoadSources
    \/ LoadProcessed
    \/ NextSource
    \/ RssParse
    \/ RssEntry
    \/ RssReturn
    \/ AfterRss
    \/ CrawlLink
    \/ CrawlReturn
    \/ WriteCandidates
    \/ StartFilter
    \/ ReadCandidates
    \/ LoadModel
    \/ ForNext
    \/ Scrape
    \/ StageA
    \/ StageB
    \/ Save
    \/ Sleep
    \/ Report
    \/ NextRun
SpecPipe == PipeInit /\ [][SpecPipeNext]_vars

(***************************************************************************)
(* SpecGui: the task runner of run_hermes.py.  start_task runs in the Tk   *)
(* main thread; run_scripts_sequentially and task_finished run in the      *)
(* worker thread start_task starts.  A child script is the sequence of     *)
(* writes it makes ("out": a line to stdout, "err": a chunk to stderr)     *)
(* before it exits with its return code; both are pipes (lines 181-184),   *)
(* and a write to a full pipe blocks.  PipeCap is the pipe capacity in     *)
(* writes.                                                                 *)
(***************************************************************************)
MaxTasks == 2
PipeCap == 2

TaskTypes == {"pdf", "news", "full"}

\* start_task, lines 141-152
scripts_for(task_type) ==
    IF task_type = "pdf" THEN <<"report_generator.py">>
    ELSE IF task_type = "news"
    THEN <<"source_generator.py", "hermes_discoverer.py", "filter_and_save.py",
           "visual_enhancer.py", "website_generator.py", "deployer.py">>
    ELSE IF task_type = "full"
    THEN <<"report_generator.py", "source_generator.py", "hermes_discoverer.py",
           "filter_and_save.py", "visual_enhancer.py", "website_generator.py", "deployer.py">>
    ELSE <<>>

Writes(what, n) == [i \in 1..n |-> what]
\* what a script may write before it exits
ChildPrograms ==
    {<<>>, <<"out">>, <<"err", "out">>, Writes("err", PipeCap) \o <<"out">>,
     Writes("err", PipeCap + 1) \o <<"out">>}
NoChild == [alive |-> FALSE, todo |-> <<>>, out_pipe |-> 0, err_pipe |-> 0, rc |-> 0]
Child(todo, rc) == [alive |-> TRUE, todo |-> todo, out_pipe |-> 0, err_pipe |-> 0, rc |-> rc]

Worker(scripts) ==
    [phase |-> "loop", scripts |-> scripts, i |-> 0, started |-> <<>>, codes |-> <<>>,
     result |-> "none", child |-> NoChild]

\* a thread that has ended
Ended ==
    [phase |-> "ended", scripts |-> <<>>, i |-> 0, started |-> <<>>, codes |-> <<>>,
     result |-> "none", child |-> NoChild]

\* start_task without the test of is_running
may_start_always(running) == TRUE

\* start_task, lines 126-128
may_start(running) == ~running

\* start_task, lines 126-139: a click on one of the three buttons; the task is
\* refused while one is running, and without a theme for the tasks that need one
StartTask ==
    /\ gui_pending = "none"
    /\ Len(workers) < MaxTasks
    /\ \E task_type \in TaskTypes, topic_paragraph \in {"", "theme"} :
         IF ~may_start(is_running)
         THEN UNCHANGED <<is_running, gui_pending>>
         ELSE IF task_type \in {"pdf", "full"} /\ topic_paragraph = ""
         THEN UNCHANGED <<is_running, gui_pending>>
         ELSE is_running' = TRUE /\ gui_pending' = task_type
    /\ UNCHANGED <<workers, nu_vars, rss_vars, flt_vars, llm, disc_vars, scr_vars,
                   led_vars, pipe_vars, date_vars, enh_vars>>

\* start_task, lines 141-154: the scripts of the task, and the worker thread
ThreadStart ==
    /\ gui_pending # "none"
    /\ workers' = Append(workers, Worker(scripts_for(gui_pending)))
    /\ gui_pending' = "none"
    /\ UNCHANGED <<is_running, nu_vars, rss_vars, flt_vars, llm, disc_vars, scr_vars,
                   led_vars, pipe_vars, date_vars, enh_vars>>

gui_frame == <<gui_pending, nu_vars, rss_vars, flt_vars, llm, disc_vars, scr_vars,
               led_vars, pipe_vars, date_vars, enh_vars>>

\* task_finished, lines 205-211, called by the worker
task_finished(k, success) ==
    /\ is_running' = FALSE
    /\ workers' = [workers EXCEPT ![k].phase = "finish",
                                  ![k].result = IF success THEN "success" ELSE "failed"]

\* lines 177-184: the next script of the list is started
Popen(k) ==
    /\ workers[k].phase = "loop"
    /\ workers[k].i < Len(workers[k].scripts)
    /\ \E todo \in ChildPrograms, rc \in {0, 1} :
         workers' = [workers EXCEPT ![k].phase = "read",
                                    ![k].i = @ + 1,
                                    ![k].started = Append(@, workers[k].scripts[workers[k].i + 1]),
                                    ![k].child = Child(todo, rc)]
    /\ UNCHANGED <<is_running, gui_frame>>

\* the child writes a line to stdout, or a chunk to stderr, when the pipe has room
ChildWrite(k) ==
    /\ workers[k].child.alive
    /\ workers[k].child.todo # <<>>
    /\ IF Head(workers[k].child.todo) = "out"
       THEN /\ workers[k].child.out_pipe < PipeCap
            /\ workers' = [workers EXCEPT ![k].child.out_pipe = @ + 1,
                                          ![k].child.todo = Tail(@)]
       ELSE /\ workers[k].child.err_pipe < PipeCap
            /\ workers' = [workers EXCEPT ![k].child.err_pipe = @ + 1,
                                          ![k].child.todo = Tail(@)]
    /\ UNCHANGED <<is_running, gui_frame>>

\* the child has written all it had to write, and exits
ChildExit(k) ==
    /\ workers[k].child.alive
    /\ workers[k].child.todo = <<>>
    /\ workers' = [workers EXCEPT ![k].child.alive = FALSE]
    /\ UNCHANGED <<is_running, gui_frame>>

\* lines 186-187: for line in iter(process.stdout.readline, ''), a line
ReadLine(k) ==
    /\ workers[k].phase = "read"
    /\ workers[k].child.out_pipe > 0
    /\ workers' = [workers EXCEPT ![k].child.out_pipe = @ - 1]
    /\ UNCHANGED <<is_running, gui_frame>>

\* lines 186-189: readline returns '' once the child has exited and the pipe is empty
ReadEof(k) ==
    /\ workers[k].phase = "read"
    /\ workers[k].child.out_pipe = 0
    /\ ~workers[k].child.alive
    /\ workers' = [workers EXCEPT ![k].phase = "wait"]
    /\ UNCHANGED <<is_running, gui_frame>>

\* the loop without its halt
halts_never(return_code) == FALSE

\* line 192: if return_code != 0
halts(return_code) == return_code # 0

\* lines 190-197: process.wait(); non-zero: stderr is read, the task has failed
Wait(k) ==
    /\ workers[k].phase = "wait"
    /\ IF halts(workers[k].child.rc)
       THEN /\ is_running' = FALSE
            /\ workers' = [workers EXCEPT ![k].phase = "finish",
                                          ![k].result = "failed",
                                          ![k].codes = Append(@, workers[k].child.rc),
                                          ![k].child = NoChild]
       ELSE /\ workers' = [workers EXCEPT ![k].phase = "loop",
                                          ![k].codes = Append(@, workers[k].child.rc),
                                          ![k].child = NoChild]
            /\ UNCHANGED is_running
    /\ UNCHANGED gui_frame

\* lines 199-200: the list is exhausted, the task has succeeded
LoopEnd(k) ==
    /\ workers[k].phase = "loop"
    /\ workers[k].i = Len(workers[k].scripts)
    /\ task_finished(k, TRUE)
    /\ UNCHANGED gui_frame

\* the rest of task_finished (the buttons, the log line), and the thread ends
WorkerEnd(k) ==
    /\ workers[k].phase = "finish"
    /\ workers' = [workers EXCEPT ![k] = Ended]
    /\ UNCHANGED <<is_running, gui_frame>>

WorkerIds == 1..Len(workers)
SpecGuiInit ==
    /\ NuIdle /\ RssIdle /\ FltIdle /\ llm = NoLlm /\ DiscIdle /\ ScrIdle /\ LedIdle /\ PipeIdle
    /\ DateIdle
    /\ GuiInit
    /\ EnhIdle
SpecGuiNext ==
    \/ StartTask
    \/ ThreadStart
    \/ \E k \in WorkerIds : Popen(k)
    \/ \E k \in WorkerIds : ChildWrite(k)
    \/ \E k \in WorkerIds : ChildExit(k)
    \/ \E k \in WorkerIds : ReadLine(k)
    \/ \E k \in WorkerIds : ReadEof(k)
    \/ \E k \in WorkerIds : Wait(k)
    \/ \E k \in WorkerIds : LoopEnd(k)
    \/ \E k \in WorkerIds : WorkerEnd(k)
SpecGui == SpecGuiInit /\ [][SpecGuiNext]_vars

(***************************************************************************)
(* database.md as text: the entry append_to_database writes (filter_and_   *)
(* save.py:157-168) and parse_database of website_generator.py:31-61.      *)
(* The text is a sequence of tokens: the two markers, "\n", " ", ":" and   *)
(* words that hold none of these.                                          *)
(***************************************************************************)
MaxRecords == 2

ARTICLE_START == "--- ARTICLE START ---"
ARTICLE_END == "--- ARTICLE END ---"
Absent == <<"<absent>">>

\* the f-string of lines 157-166 for the record append_to_database adds
entry_text(record) ==
    <<ARTICLE_START, NL, "Title", ":", " ">> \o record.Title
    \o <<NL, "URL", ":", " ">> \o record.URL
    \o <<NL, "Date_Processed", ":", " ">> \o record.Date_Processed
    \o <<NL, "Reason", ":", " ">> \o record.Reason
    \o <<NL, "Summary", ":", NL>> \o record.Summary
    \o <<NL, ARTICLE_END, NL, NL>>

\* re.finditer(r"^(.*?):\s*(.*)", article_text, re.MULTILINE) from the line that
\* starts at p: the key is the text of the line before its first colon, \s* runs
\* over spaces and newlines, the value is the rest of the line it stops in
RECURSIVE pairs_from(_, _)
pair_at(chunk, p, c, v) ==
    <<[key |-> strip(SubSeq(chunk, p, c - 1)),
       value |-> strip(SubSeq(chunk, v, FirstIn(chunk, v, {NL}) - 1))]>>
    \o pairs_from(chunk, FirstIn(chunk, v, {NL}) + 1)

line_pairs(chunk, p, e, c) ==
    IF c < e THEN pair_at(chunk, p, c, FirstNotIn(chunk, c + 1, WS))
    ELSE pairs_from(chunk, e + 1)

pairs_from(chunk, p) ==
    IF p > Len(chunk) THEN <<>>
    ELSE line_pairs(chunk, p, FirstIn(chunk, p, {NL}), FirstIn(chunk, p, {":"}))

\* article_data[key]: the value of the last pair with the key
has_key(pairs, key) == \E i \in 1..Len(pairs) : pairs[i].key = key
field(pairs, key) ==
    IF has_key(pairs, key)
    THEN pairs[CHOOSE i \in 1..Len(pairs) :
                  pairs[i].key = key /\ \A j \in (i + 1)..Len(pairs) : pairs[j].key # key].value
    ELSE Absent

\* re.search(r'Summary:\n(.*)', article_text, re.DOTALL): where it matches, 0 if nowhere
summary_at(chunk) ==
    IF \E i \in 1..(Len(chunk) - 2) : SubSeq(chunk, i, i + 2) = <<"Summary", ":", NL>>
    THEN CHOOSE i \in 1..(Len(chunk) - 2) :
            /\ SubSeq(chunk, i, i + 2) = <<"Summary", ":", NL>>
            /\ \A j \in 1..(i - 1) : SubSeq(chunk, j, j + 2) # <<"Summary", ":", NL>>
    ELSE 0

\* lines 46-54: the dictionary of one chunk, on the five fields of a record
article_from(chunk, pairs, s) ==
    [Title |-> field(pairs, <<"Title">>),
     URL |-> field(pairs, <<"URL">>),
     Date_Processed |-> field(pairs, <<"Date_Processed">>),
     Reason |-> field(pairs, <<"Reason">>),
     Summary |-> IF s > 0 THEN strip(Drop(chunk, s + 2)) ELSE field(pairs, <<"Summary">>)]

article_of(chunk) == article_from(chunk, pairs_from(chunk, 1), summary_at(chunk))

\* lines 42-57: blank chunks and chunks without Title are left out
RECURSIVE articles_of(_)
articles_of(chunks) ==
    IF chunks = <<>> THEN <<>>
    ELSE IF strip(Head(chunks)) = <<>> THEN articles_of(Tail(chunks))
    ELSE IF has_key(pairs_from(Head(chunks), 1), <<"Title">>)
    THEN <<article_of(Head(chunks))>> \o articles_of(Tail(chunks))
    ELSE articles_of(Tail(chunks))

\* line 60: sort(key=Date_Processed, default '0000-00-00', reverse=True), a stable sort
DateOrder == <<<<"0000-00-00">>, <<"2024-12-31">>, <<"2025-01-01">>>>
date_key(article) ==
    IF article.Date_Processed = Absent THEN 1
    ELSE IF \E i \in 1..Len(DateOrder) : DateOrder[i] = article.Date_Processed
    THEN CHOOSE i \in 1..Len(DateOrder) : DateOrder[i] = article.Date_Processed
    ELSE 0
insert_by_date(list, a, n) == Take(list, n) \o <<a>> \o Drop(list, n)
RECURSIVE newest_first(_)
place(list, a) ==
    insert_by_date(list, a, Cardinality({i \in 1..Len(list) : date_key(list[i]) >= date_key(a)}))
newest_first(list) ==
    IF list = <<>> THEN <<>>
    ELSE place(newest_first(SubSeq(list, 1, Len(list) - 1)), list[Len(list)])

\* parse_database on the text of database.md
parse_database(text) == newest_first(articles_of(Split(text, ARTICLE_START)))

\* the articles append_to_database is called with
LedgerTitles == {<<"T">>, <<"A", ":", " ", "b">>}
LedgerSummaries == {<<"-", " ", "one">>, <<"-", " ", "one", NL, "-", " ", "two">>,
                    <<"-", " ", "Title", ":", " ", "x">>, <<>>}
LedgerArticles ==
    [title : LedgerTitles, url : {<<"http", ":", "//a.c/x">>},
     reason : {<<"High", " ", "(", "Score", ":", " ", "8/10)", ".">>}, summary : LedgerSummaries]

LedInit ==
    /\ ledger_text = <<>>
    /\ written = <<>>
    /\ articles = <<>>
    /\ led_pc = "open"

\* append_to_database(db_entry): one more record, its entry at the end of the file
LedAppend ==
    /\ led_pc = "open"
    /\ Len(written) < MaxRecords
    /\ \E article \in LedgerArticles :
         /\ written' = append_to_database(written, article)
         /\ ledger_text' = ledger_text \o entry_text(written'[Len(written')])
    /\ UNCHANGED <<articles, led_pc, nu_vars, rss_vars, flt_vars, llm, disc_vars, scr_vars,
                   pipe_vars, ext_vars>>

\* parse_database()
LedParse ==
    /\ led_pc = "open"
    /\ articles' = parse_database(ledger_text)
    /\ led_pc' = "parsed"
    /\ UNCHANGED <<ledger_text, written, nu_vars, rss_vars, flt_vars, llm, disc_vars,
                   scr_vars, pipe_vars, ext_vars>>

(***************************************************************************)
(* SpecLedger: records appended to database.md, then the file parsed.      *)
(***************************************************************************)
SpecLedgerInit ==
    NuIdle /\ RssIdle /\ FltIdle /\ llm = NoLlm /\ DiscIdle /\ ScrIdle /\ LedInit /\ PipeIdle /\ ExtIdle
SpecLedgerNext == LedAppend \/ LedParse
SpecLedger == SpecLedgerInit /\ [][SpecLedgerNext]_vars

(***************************************************************************)
(* visual_enhancer.py: its own parse_database (lines 45-69), the loop of   *)
(* __main__ (lines 195-250) and update_database (lines 72-89), on the      *)
(* token text of database.md.                                              *)
(***************************************************************************)
\* ': ' in line: where the first colon followed by a space is, 0 if nowhere
colon_space(line) ==
    IF \E i \in 1..(Len(line) - 1) : line[i] = ":" /\ line[i + 1] = " "
    THEN CHOOSE i \in 1..(Len(line) - 1) :
            /\ line[i] = ":" /\ line[i + 1] = " "
            /\ \A j \in 1..(i - 1) : ~(line[j] = ":" /\ line[j + 1] = " ")
    ELSE 0

\* lines 58-61: key, value = line.split(': ', 1), both stripped, for the lines
\* that hold ': '
RECURSIVE enhancer_pairs(_)
enhancer_pair(line, c) ==
    IF c > 0 THEN <<[key |-> strip(Take(line, c - 1)), value |-> strip(Drop(line, c + 1))]>>
    ELSE <<>>
enhancer_pairs(lines) ==
    IF lines = <<>> THEN <<>>
    ELSE enhancer_pair(Head(lines), colon_space(Head(lines))) \o enhancer_pairs(Tail(lines))

\* lines 57-65: the dictionary of one chunk; the Summary is what follows the
\* first `Summary:` line, to the end of the chunk, stripped
enhancer_article_from(chunk, pairs, s) ==
    [Title |-> field(pairs, <<"Title">>),
     URL |-> field(pairs, <<"URL">>),
     Date_Processed |-> field(pairs, <<"Date_Processed">>),
     Image_Path |-> field(pairs, <<"Image_Path">>),
     Image_Alt_Text |-> field(pairs, <<"Image_Alt_Text">>),
     Image_Caption |-> field(pairs, <<"Image_Caption">>),
     Reason |-> field(pairs, <<"Reason">>),
     Summary |-> IF s > 0 THEN strip(Drop(chunk, s + 2)) ELSE field(pairs, <<"Summary">>)]

enhancer_article_of(chunk) ==
    enhancer_article_from(chunk, enhancer_pairs(Split(strip(chunk), NL)), summary_at(chunk))

\* lines 52-69: one dictionary for each chunk that is not blank
RECURSIVE enhancer_articles_of(_)
enhancer_articles_of(chunks) ==
    IF chunks = <<>> THEN <<>>
    ELSE IF strip(Head(chunks)) = <<>> THEN enhancer_articles_of(Tail(chunks))
    ELSE <<enhancer_article_of(Head(chunks))>> \o enhancer_articles_of(Tail(chunks))

\* parse_database of visual_enhancer.py on the text of database.md
enhancer_parse_database(text) == enhancer_articles_of(Split(text, ARTICLE_START))

\* line 81: if key in article and article[key]
has_value(article, key) == article[key] # Absent /\ article[key] # <<>>

\* line 82: f"{key}: {article[key]}\n"
key_line(article, key) ==
    IF has_value(article, key) THEN <<key, ":", " ">> \o article[key] \o <<NL>> ELSE <<>>

\* lines 83-84: f"Summary:\n{article['Summary']}\n"
summary_lines(article) ==
    IF has_value(article, "Summary") THEN <<"Summary", ":", NL>> \o article.Summary \o <<NL>>
    ELSE <<>>

\* lines 77-85: the entry of one article, the keys in the order of line 79
enhancer_entry(article) ==
    <<ARTICLE_START, NL>>
    \o key_line(article, "Title") \o key_line(article, "URL")
    \o key_line(article, "Date_Processed") \o key_line(article, "Image_Path")
    \o key_line(article, "Image_Alt_Text") \o key_line(article, "Image_Caption")
    \o key_line(article, "Reason")
    \o summary_lines(article)
    \o <<ARTICLE_END, NL, NL>>

\* update_database(all_articles): the text the file is overwritten with
RECURSIVE update_database(_)
update_database(list) ==
    IF list = <<>> THEN <<>> ELSE enhancer_entry(Head(list)) \o update_database(Tail(list))

\* lines 232-244: what the loop sets for an article without Image_Path, when the
\* image was downloaded and when it was not
Downloaded ==
    [Image_Path |-> <<"images/T.jpg">>, Image_Alt_Text |-> <<"A", " ", "photo">>,
     Image_Caption |-> <<"Seen", ":", " ", "today">>]
DownloadFailed ==
    [Image_Path |-> <<"download_failed">>, Image_Alt_Text |-> <<>>, Image_Caption |-> <<>>]
Downloads == {Downloaded, DownloadFailed}

with_image(article, image) ==
    IF article.Image_Path = Absent
    THEN [article EXCEPT !.Image_Path = image.Image_Path,
                         !.Image_Alt_Text = image.Image_Alt_Text,
                         !.Image_Caption = image.Image_Caption]
    ELSE article

\* line 203: the articles without the key Image_Path
articles_to_process(list) == {i \in 1..Len(list) : list[i].Image_Path = Absent}

\* filter_and_save.py has run before the enhancer and has appended a record
EnhAppend ==
    /\ enh_pc = "idle"
    /\ LedAppend

\* lines 198-209: the file is parsed; nothing to do without an article that
\* lacks Image_Path
EnhParse ==
    /\ enh_pc = "idle"
    /\ all_articles' = enhancer_parse_database(ledger_text)
    /\ enh_pc' = IF articles_to_process(all_articles') = {} THEN "exited" ELSE "loop"
    /\ UNCHANGED <<led_vars, nu_vars, rss_vars, flt_vars, llm, disc_vars, scr_vars,
                   pipe_vars, date_vars, gui_vars>>

\* lines 227-244: the loop over all_articles
EnhLoop ==
    /\ enh_pc = "loop"
    /\ \E image \in Downloads :
         all_articles' = [i \in 1..Len(all_articles) |-> with_image(all_articles[i], image)]
    /\ enh_pc' = "update"
    /\ UNCHANGED <<led_vars, nu_vars, rss_vars, flt_vars, llm, disc_vars, scr_vars,
                   pipe_vars, date_vars, gui_vars>>

\* line 248: update_database(all_articles)
EnhUpdate ==
    /\ enh_pc = "update"
    /\ ledger_text' = update_database(all_articles)
    /\ enh_pc' = "done"
    /\ UNCHANGED <<written, articles, led_pc, all_articles, nu_vars, rss_vars, flt_vars, llm,
                   disc_vars, scr_vars, pipe_vars, date_vars, gui_vars>>

\* the script has ended; the next pipeline run may follow
EnhEnd ==
    /\ enh_pc \in {"done", "exited"}
    /\ enh_pc' = "idle"
    /\ all_articles' = <<>>
    /\ UNCHANGED <<led_vars, nu_vars, rss_vars, flt_vars, llm, disc_vars, scr_vars,
                   pipe_vars, date_vars, gui_vars>>

(***************************************************************************)
(* SpecEnhance: pipeline runs that append records to database.md and then  *)
(* run the visual enhancer over it.                                        *)
(***************************************************************************)
SpecEnhanceInit ==
    NuIdle /\ RssIdle /\ FltIdle /\ llm = NoLlm /\ DiscIdle /\ ScrIdle /\ LedInit /\ PipeIdle /\ ExtIdle
SpecEnhanceNext == EnhAppend \/ EnhParse \/ EnhLoop \/ EnhUpdate \/ EnhEnd
SpecEnhance == SpecEnhanceInit /\ [][SpecEnhanceNext]_vars

(***************************************************************************)
(* Properties of the filtering run (specification Spec).                   *)
(***************************************************************************)
\* the score a Stage A reason reports: the digits between "Score: " and "/10"
HasScore(reason) == \E i \in 1..Len(reason) : reason[i] = "Score: "
ScoreOf(reason) ==
    ToInt(SubSeq(reason, FirstIn(reason, 1, {"Score: "}) + 1, FirstIn(reason, 1, {"/10"}) - 1))

\* records appended to database.md in the current iteration, and in the run
AppendedInIteration == Len(database) - db_len.iter
AppendedInRun == Len(database) - db_len.run

\* the iteration of candidate idx is over (the loop is back at its head)
IterationDone == pc = "next" /\ idx >= 1

Str_Yes == <<"Y", "e", "s">>

\* C1: Stage B (and the summary) is asked for a candidate only after Stage A was
\* asked once for it and returned a score >= 7; as long as the score Stage A
\* returned is <= 6, the iteration makes no Stage B call and no summary call.
C1_StageBOnlyAfterScore7 ==
    /\ (calls.b > 0 \/ calls.s > 0 \/ pc \in {"stageB", "save"}) =>
          /\ calls.a = 1
          /\ passed_thematic
          /\ HasScore(reason_thematic)
          /\ ScoreOf(reason_thematic) >= 7
    /\ (HasScore(reason_thematic) /\ ScoreOf(reason_thematic) <= 6) =>
          /\ calls.b = 0
          /\ calls.s = 0
          /\ AppendedInIteration = 0
          /\ pc \in {"next", "report", "done"}
    /\ calls.b <= 1 /\ calls.s <= calls.b

C1_Witness ==
    /\ calls.b = 1
    /\ HasScore(reason_thematic)
    /\ ScoreOf(reason_thematic) = 7

\* C2: when the iteration of a candidate is over, exactly one record (with the
\* candidate's URL, at the end of the ledger) was appended in it if extraction
\* succeeded and Stage A and Stage B passed, and none otherwise; the count that
\* is reported equals the number of records appended during the run.
C2_AppendIffAllPassed ==
    /\ IterationDone =>
          IF scraped(article_data) /\ passed_thematic /\ passed_confirmation
          THEN /\ AppendedInIteration = 1
               /\ database[Len(database)].URL = urls_to_process[idx]
          ELSE AppendedInIteration = 0
    /\ AppendedInIteration \in {0, 1}
    /\ pc \in {"next", "report", "done"} => saved_count = AppendedInRun
    /\ \A k \in 1..db_len.run : database[k] = OldRecord

C2_Witness ==
    /\ pc = "done"
    /\ exit_code = 0
    /\ saved_count = MaxCandidates
    /\ Len(database) = MaxCandidates + 1

\* the response of the form `Score: n. Justification: t`, without and with the
\* final-channel marker in front
ScoreLine(n, t) == <<"Score:", " ">> \o ToStr(n) \o <<".", " ", "Justification:", " ">> \o t
ScoresAsked == {7, 8, 10}
Justifications == {<<"matches theme">>}

\* C3 as stated: a Stage A response `Score: n. Justification: t` with n >= 7 and a
\* capability that answers Yes at Stage B get the article appended, with
\* `Score: n/10` in the Reason of its record.
C3_Original ==
    \A n \in ScoresAsked, t \in Justifications :
        (/\ IterationDone
         /\ scraped(article_data)
         /\ response = Text(ScoreLine(n, t))
         /\ answer \in {NoCall, Text(Str_Yes)}) =>
            /\ AppendedInIteration = 1
            /\ Contains(database[Len(database)].Reason, ScoreOutOfTen(n))

\* C3, amended: a Stage A response that is the final-channel marker followed by
\* `Score: n. Justification: t` with n >= 7, followed by the Stage B answer Yes,
\* gets the article appended, with `Score: n/10` in the Reason of its record.
C3_FinalChannelScoreAppended ==
    \A n \in ScoresAsked, t \in Justifications :
        (/\ IterationDone
         /\ scraped(article_data)
         /\ response = Text(<<CH>> \o ScoreLine(n, t))
         /\ answer \in {NoCall, Text(Str_Yes)}) =>
            /\ answer = Text(Str_Yes)
            /\ AppendedInIteration = 1
            /\ database[Len(database)].URL = urls_to_process[idx]
            /\ Contains(database[Len(database)].Reason, ScoreOutOfTen(n))

C3_Witness ==
    /\ IterationDone
    /\ response = Text(<<CH>> \o ScoreLine(7, <<"matches theme">>))
    /\ answer = Text(Str_Yes)
    /\ AppendedInIteration = 1
    /\ Contains(database[Len(database)].Reason, <<"Score: ", "7", "/10">>)

\* C4 as stated: once Stage A has answered with a text that does not match the
\* grammar, the verdict is a failed one, no exception has ended the run, Stage B
\* is not asked, nothing is appended, and the reason is one of the format-error
\* reasons (which no low score produces).
FormatErrorReasons == {Reason_NoFinal, Reason_BadFormat}
C4_Original ==
    (/\ calls.a = 1
     /\ response.kind = "text"
     /\ ~matches_grammar(response.text)) =>
        /\ pc # "crashed"
        /\ ~passed_thematic
        /\ reason_thematic \in FormatErrorReasons
        /\ \A n \in 0..(RELEVANCE_THRESHOLD - 1) : reason_thematic # Reason_Low(n)
        /\ calls.b = 0
        /\ AppendedInIteration = 0

\* C5: no exception of the LLM capability ends the run; after an exception at
\* Stage A or Stage B the verdict is negative, nothing is appended for the
\* candidate and the loop goes on (it is at, or on its way to, its head, or has
\* ended normally after the last candidate).
C5_LlmExceptionsContained ==
    /\ pc # "crashed"
    /\ response = Raise =>
          /\ ~passed_thematic
          /\ calls.b = 0
          /\ AppendedInIteration = 0
          /\ pc \in {"next", "report", "done"}
          /\ exit_code \in {NoExit, 0}
    /\ answer = Raise =>
          /\ ~passed_confirmation
          /\ calls.s = 0
          /\ AppendedInIteration = 0
          /\ pc \in {"sleep", "next", "report", "done"}
          /\ exit_code \in {NoExit, 0}

C5_Witness ==
    /\ answer = Raise
    /\ pc = "next"
    /\ idx < Len(urls_to_process)
    /\ saved_count = 0

\* C6 as stated: Stage B passes exactly when the answer, compared without regard
\* to case, is `yes`; after any other answer nothing is appended.
C6_Original ==
    (calls.b = 1 /\ answer.kind = "text") =>
        /\ passed_confirmation <=> (lower(strip(answer.text)) = Str_yes)
        /\ lower(strip(answer.text)) # Str_yes => AppendedInIteration = 0

\* line 108 on the final channel of the response of this iteration, and whether
\* line 110 was reached with it
ScoreMatch == score_search(strip(final_match(strip(response.text)).group1), 1)
ScoreExtracted ==
    /\ calls.a = 1
    /\ response.kind = "text"
    /\ final_match(strip(response.text)).ok
    /\ ScoreMatch.ok

\* C25 as stated: the score taken from a Stage A response and compared with the
\* threshold is an integer from 1 to 10, and Stage A passes only for 7, 8, 9, 10.
C25_Original ==
    /\ ScoreExtracted => ToInt(ScoreMatch.group1) \in 1..10
    /\ (calls.a = 1 /\ passed_thematic) =>
          (ScoreExtracted /\ ToInt(ScoreMatch.group1) \in RELEVANCE_THRESHOLD..10)

\* the loop is in the iteration of a candidate
InIteration == pc \in {"scrape", "stageA", "stageB", "save", "sleep"}

\* C24 as stated: whenever the iteration of a candidate ends and another candidate
\* follows, it ends through time.sleep(1), whatever became of the candidate.
C24_Original ==
    [][(InIteration /\ pc' = "next" /\ idx < Len(urls_to_process)) => pc = "sleep"]_vars

\* candidate_urls.txt is absent, or every line of it is blank
NoCandidates ==
    \/ candidate_file = NoFile
    \/ \A i \in 1..Len(candidate_file) : candidate_file[i] = <<>>

\* C19: with no candidate file, or one without a non-blank line, the filtering
\* run ends with exit status 0 at once: the model is not loaded, no page is
\* fetched, the LLM is not called, and database.md stays as it was.
C19_NoCandidatesNoOp ==
    NoCandidates =>
        /\ pc \in {"start", "done"}
        /\ pc = "done" => exit_code = 0
        /\ calls = NoCalls
        /\ article_data = NoArticle
        /\ response = NoCall
        /\ answer = NoCall
        /\ saved_count = 0
        /\ Len(database) = db_len.run
        /\ \A k \in 1..Len(database) : database[k] = OldRecord

C19_Witness ==
    /\ candidate_file = <<<<>>>>
    /\ database = <<OldRecord>>
    /\ pc = "done"
    /\ exit_code = 0

(***************************************************************************)
(* Properties of normalize_url (specification SpecNorm).                   *)
(***************************************************************************)
\* C7 as stated: normalize_url(normalize_url(u)) = normalize_url(u).
C7_Original == nu_pc = "again" => nu_out2 = nu_out

\* C8: a URL and the same URL with one more tracking parameter, or with www. in
\* front of its host, have the same normal form.
C8_TrackingAndWwwSameNormalForm ==
    nu_pc \in {"tracked", "www"} => (nu_other # nu_url /\ nu_out2 = nu_out)

C8_Witness ==
    /\ nu_pc = "tracked"
    /\ Len(nu_parts.fields) = MaxParams
    /\ nu_out2 = nu_out
    /\ nu_out # nu_url
    /\ nu_out2 # nu_other

\* the reference result: the URL written from the same components, with a leading
\* www. taken off the host and the fields of tracking keys left out
FieldKey(f) == IF Find(f, "=", 1) = 0 THEN f ELSE Take(f, Find(f, "=", 1) - 1)
RefHost(h) == IF StartsWith(h, Str_www) THEN Drop(h, Len(Str_www)) ELSE h
RefNormalize(parts) ==
    UrlString([parts EXCEPT !.host = RefHost(@),
                            !.fields = SelectSeq(@, LAMBDA f : ~is_tracking_key(FieldKey(f)))])

\* C9 as stated: normalize_url equals the reference result.
C9_Original == nu_pc = "normalized" => nu_out = RefNormalize(nu_parts)

(***************************************************************************)
(* Properties of process_rss_source (specification SpecRss).               *)
(***************************************************************************)
\* C10: an iteration adds a URL only for an entry published at or after
\* cutoff_time, and what it adds is the normalized link; once the iteration of an
\* entry with a link, published exactly at cutoff_time, is over, its normalized
\* link is in the candidate set.
C10_CutoffInclusive ==
    \A i \in 1..Len(rss_added) :
        /\ rss_added[i] # NoUrl =>
              /\ feed[i].published_parsed.kind = "time"
              /\ feed[i].published_parsed.t >= cutoff_time
              /\ rss_added[i] = normalize_url(feed[i].link)
              /\ rss_added[i] \in found_urls
        /\ (feed[i].link # NoUrl /\ feed[i].published_parsed = TimeAt(cutoff_time)) =>
              normalize_url(feed[i].link) \in found_urls

C10_Witness ==
    /\ rss_pc = "returned"
    /\ Len(feed) = 2
    /\ feed[1].published_parsed = TimeAt(cutoff_time - 1)
    /\ feed[2].published_parsed = TimeAt(cutoff_time)
    /\ feed[1].link = feed[2].link
    /\ rss_added = <<NoUrl, normalize_url(feed[2].link)>>

\* C11: the iteration of an entry without a link, or whose published_parsed is
\* absent or is no date, adds nothing to the candidate set, at any cutoff.
C11_UndatedOrUnlinkedNeverAdded ==
    \A i \in 1..Len(rss_added) :
        (feed[i].link = NoUrl \/ feed[i].published_parsed.kind # "time") =>
            /\ rss_added[i] = NoUrl
            /\ rss_entry_adds(feed[i], {}, cutoff_time) = NoUrl

C11_Witness ==
    /\ rss_pc = "returned"
    /\ is_rss = TRUE
    /\ cutoff_time = 0
    /\ Len(feed) = 2
    /\ feed[1] = [link |-> NoUrl, published_parsed |-> TimeAt(Now - 3600)]
    /\ feed[2] = [link |-> Link_b, published_parsed |-> NoTime]
    /\ found_urls = {}

(***************************************************************************)
(* Properties of the discovery run (specification SpecDisc).               *)
(***************************************************************************)
\* the calls of crawl_html_source logged for source i
CrawlsOf(i) == {k \in 1..Len(disc_log) : disc_log[k] = Event("crawl", i)}
\* process_rss_source has returned for source i and line 213 has been passed
\* (a run that crashed at a source that is a mapping crashed in its crawl)
PastFeedOf(i) ==
    i < src_i \/ (i = src_i /\ disc_pc \in {"source", "links", "write", "done", "crashed"})

\* C12: crawl_html_source is called for a source only when its feed has no entry,
\* at most once, and it has been called for every source with no entry as soon as
\* the run is past the feed of that source; a feed with entries, recent or not,
\* never leads to a crawl.
C12_CrawlIffNoEntries ==
    \A i \in 1..Len(sources_to_process) :
        sources_to_process[i].kind = "source" =>
            /\ Cardinality(CrawlsOf(i)) <= 1
            /\ CrawlsOf(i) # {} => (PastFeedOf(i) /\ sources_to_process[i].entries = <<>>)
            /\ (PastFeedOf(i) /\ sources_to_process[i].entries = <<>>) => CrawlsOf(i) # {}

C12_Witness ==
    /\ disc_pc = "done"
    /\ disc_exit = 0
    /\ sources_to_process = <<Src_stale, Src_dead>>
    /\ disc_log = <<Event("rss", 1), Event("rss", 2), Event("crawl", 2), Event("write", 0)>>
    /\ candidate_file = <<>>

\* the links the sources of the run hold: feed entries and anchors of pages
LinksOf(source) ==
    {source.entries[i].link : i \in 1..Len(source.entries)}
    \cup {source.page.links[i].href : i \in 1..Len(source.page.links)}
DiscoveredLinks == UNION {LinksOf(sources_to_process[i]) : i \in 1..Len(sources_to_process)}
LinesOf(file) == {file[i] : i \in 1..Len(file)}

\* C15: when the run has ended through a write of candidate_urls.txt, the lines of
\* the file are exactly the URLs of the candidate set that are no line of
\* processed_urls.log, each is normalize_url of a link of a source, and the lines
\* are in strictly ascending order (so no line occurs twice).
C15_CandidateFileSortedUniqueNew ==
    (disc_pc = "done" /\ disc_exit = 0) =>
        /\ candidate_file # NoFile
        /\ LinesOf(candidate_file) = found_urls \ LinesOf(processed_log)
        /\ \A i \in 1..Len(candidate_file) :
              /\ \E link \in DiscoveredLinks : candidate_file[i] = normalize_url(link)
              /\ candidate_file[i] \notin LinesOf(processed_log)
              /\ i > 1 => str_less(candidate_file[i - 1], candidate_file[i])

C15_Witness ==
    /\ disc_pc = "done"
    /\ disc_exit = 0
    /\ sources_to_process = <<Src_page, Src_feed>>
    /\ processed_log # NoFile
    /\ found_urls = {Url_a, Url_b, normalize_url(Href_a_x)}
    /\ candidate_file = <<Url_a, Url_b>>

\* the static registry is a mapping whose `sources` is a list of sources
StaticValid == static_config.kind = "dict" /\ static_config.sources.kind = "list"
\* the reference of C17: the static sources, followed by the dynamic sources when
\* the dynamic registry is a mapping whose `sources` is a list of sources
RefSources ==
    IF dynamic_config.kind = "dict" /\ dynamic_config.sources.kind = "list"
    THEN static_config.sources.items \o dynamic_config.sources.items
    ELSE static_config.sources.items

\* C17 as stated: with a valid static registry load_sources returns, without
\* raising or exiting, the static sources followed by the dynamic sources of a
\* valid dynamic registry, and the static sources alone when the dynamic registry
\* is absent or malformed.
C17_Original ==
    (disc_pc # "start" /\ StaticValid) =>
        /\ load_sources(static_config, dynamic_config) = Returned(RefSources)
        /\ sources_to_process = RefSources

\* C18: with the static registry missing or unparsable the run ends with a
\* non-zero status at load_sources: no feed is parsed, no page is fetched and
\* candidate_urls.txt is not written.
C18_StaticRegistryFatal ==
    static_config.kind \in {"nofile", "unparsable"} =>
        /\ disc_pc \in {"start", "done", "crashed"}
        /\ disc_pc # "start" => disc_exit = 1
        /\ disc_log = <<>>
        /\ rss_pc = "idle"
        /\ found_urls = {}
        /\ candidate_file = NoFile

C18_Witness ==
    /\ static_config = Unparsable
    /\ dynamic_config = Config("dict", ListOf(<<Src_feed>>))
    /\ disc_pc = "crashed"
    /\ disc_exit = 1

\* http:// or https:// in front
IsHttpUrl(url) ==
    \/ StartsWith(url, Str_http \o <<":", "/", "/">>)
    \/ StartsWith(url, Str_https \o <<":", "/", "/">>)

\* C22 as stated: every URL crawl_html_source is to fetch for a source, and so
\* every URL it adds, is an absolute http(s) URL whose host is the host of the
\* page of the source.
C22_Original ==
    disc_pc = "links" =>
        \A url \in links_to_check(sources_to_process[src_i]) :
            /\ IsHttpUrl(url)
            /\ urlparse(url).netloc = urlparse(sources_to_process[src_i].url).netloc

(***************************************************************************)
(* Properties of find_article_date (specification SpecDate).               *)
(***************************************************************************)
\* the page was fetched and parsed: find_article_date was called
DateSought == date_pc = "checked" /\ date_out # None
Present(k) == date_page.signals[k] # NoTime
Parseable(k) == date_page.signals[k].kind = "time"
\* the signal of highest priority that is on the page
FirstPresent == CHOOSE k \in 1..3 : Present(k) /\ \A j \in 1..(k - 1) : ~Present(j)
\* date_parser accepts the value of the signal
Parsed(k) == date_page.signals[k].kind \in {"time", "overflow"}
\* the signal of highest priority that date_parser accepts
FirstParsed == CHOOSE k \in 1..3 : Parsed(k) /\ \A j \in 1..(k - 1) : ~Parsed(j)
AtOrAfterCutoff(signal) == signal.kind = "time" /\ signal.t >= CutoffOf(Now)

\* C21 as stated: the date is taken from the signal of highest priority that is on
\* the page, no lower signal is consulted, and the URL is added only if that
\* signal parses to a date at or after the cutoff.
C21_Original ==
    DateSought =>
        /\ (\E k \in 1..3 : Present(k)) =>
              date_out = (IF Parseable(FirstPresent) THEN date_page.signals[FirstPresent]
                          ELSE NoTime)
        /\ date_added # NoUrl =>
              /\ \E k \in 1..3 : Present(k)
              /\ AtOrAfterCutoff(date_page.signals[FirstPresent])

\* C21, amended: the date is that of the signal of highest priority that
\* date_parser accepts; signals that are absent or do not parse are passed over,
\* and no signal below the first that parses is consulted.  When that date cannot
\* be converted to UTC, find_article_date raises.  The URL is added exactly when
\* there is such a date and it is at or after the cutoff.
C21_FirstParseableSignalWins ==
    DateSought =>
        /\ date_out = (IF ~\E k \in 1..3 : Parsed(k) THEN NoTime
                       ELSE IF Parseable(FirstParsed) THEN date_page.signals[FirstParsed]
                       ELSE DateRaised)
        /\ date_added # NoUrl <=>
              /\ \E k \in 1..3 : Parsed(k)
              /\ AtOrAfterCutoff(date_page.signals[FirstParsed])
        /\ date_added \in {NoUrl, normalize_url(date_page.href)}

\* an unparseable first signal, a stale second and a recent third: the second wins
C21_Witness ==
    /\ DateSought
    /\ date_page.signals = <<BadTime, Stale, Recent>>
    /\ date_out = Stale
    /\ date_added = NoUrl

(***************************************************************************)
(* Properties of successive pipeline runs (specification SpecPipe).        *)
(***************************************************************************)
\* the discovery run of this pipeline run has written candidate_urls.txt
CandidatesWritten == disc_pc = "done" /\ disc_exit = 0

\* C16 as stated: a URL the filtering stage evaluated in an earlier run is not
\* written to candidate_urls.txt by the discovery of a later run and is not taken
\* up by the filtering of a later run, and database.md holds at most one record
\* per URL.
C16_Original ==
    /\ \A u \in evaluated :
          /\ CandidatesWritten => u \notin LinesOf(candidate_file)
          /\ u \notin EvaluatedInRun
    /\ \A i, j \in 1..Len(database) : database[i].URL = database[j].URL => i = j

\* C23 as stated: once the sources are loaded the discovery run is not ended by
\* what a source, its page or a linked page holds: it ends with status 0, after
\* process_rss_source was called for every source and candidate_urls.txt was
\* written; and a filtering run that got past the loading of the model is not
\* ended by a candidate that cannot be scraped: it ends with status 0 after the
\* loop has taken up every candidate.
C23_Original ==
    /\ sources_to_process # <<>> =>
          /\ disc_pc # "crashed"
          /\ disc_pc = "done" =>
                /\ disc_exit = 0
                /\ \A i \in 1..Len(sources_to_process) :
                      \E k \in 1..Len(disc_log) : disc_log[k] = Event("rss", i)
                /\ disc_log[Len(disc_log)] = Event("write", 0)
    /\ pc # "crashed"
    /\ (pc = "done" /\ urls_to_process # <<>> /\ idx > 0) =>
          /\ exit_code = 0
          /\ idx = Len(urls_to_process)

IsPrefix(s, t) == Len(s) <= Len(t) /\ SubSeq(t, 1, Len(s)) = s

\* C20: no step of a discovery run or of a filtering run changes
\* processed_urls.log, and every step leaves the records database.md held as an
\* unmodified prefix of the records it holds afterwards.
C20_LedgersNeverPruned ==
    [][processed_log' = processed_log /\ IsPrefix(database, database')]_vars

C20_Witness ==
    /\ run = 2
    /\ processed_log # NoFile
    /\ CandidatesWritten
    /\ pc = "done"
    /\ db_len.run >= 1
    /\ Len(database) >= db_len.run + 2

(***************************************************************************)
(* Properties of the visual enhancer (specification SpecEnhance).          *)
(***************************************************************************)
\* the file update_database has just written, parsed again
Reparsed == enhancer_parse_database(ledger_text)

\* Title, URL, Date_Processed and Reason of every record are read from the
\* rewritten file as they were read from the file before the rewrite
HeaderFieldsKept ==
    /\ Len(Reparsed) = Len(all_articles)
    /\ \A i \in 1..Len(all_articles) :
          /\ Reparsed[i].Title = all_articles[i].Title
          /\ Reparsed[i].URL = all_articles[i].URL
          /\ Reparsed[i].Date_Processed = all_articles[i].Date_Processed
          /\ Reparsed[i].Reason = all_articles[i].Reason

\* C30 as stated: after every rewrite of database.md by the enhancer, the first
\* or a later one, parsing the rewritten file gives for every record the Title,
\* URL, Date_Processed, Reason and Summary that parsing gave before the rewrite.
C30_Original ==
    enh_pc = "done" =>
        /\ HeaderFieldsKept
        /\ \A i \in 1..Len(all_articles) : Reparsed[i].Summary = all_articles[i].Summary

(***************************************************************************)
(* Properties of the task runner (specification SpecGui).                  *)
(***************************************************************************)
\* the worker has been started and has not called task_finished
Running(k) == workers[k].phase \in {"loop", "read", "wait"}
RunningWorkers == {k \in WorkerIds : Running(k)}

\* C27: at most one worker is between its start and its call of task_finished;
\* is_running is true exactly from the moment start_task accepts a task (before
\* the thread is started) until that worker calls task_finished, and start_task
\* accepts a task only while no worker is running.
C27_AtMostOneWorker ==
    /\ Cardinality(RunningWorkers) <= 1
    /\ gui_pending # "none" => RunningWorkers = {}
    /\ is_running <=> (gui_pending # "none" \/ RunningWorkers # {})

\* a second task, started while the thread of the first is still in the rest of
\* task_finished
C27_Witness ==
    /\ Len(workers) = 2
    /\ workers[1].phase = "finish"
    /\ workers[2].phase = "read"
    /\ is_running

AllZero(codes) == \A j \in 1..Len(codes) : codes[j] = 0

\* C28: for every worker the scripts started are the first scripts of its list,
\* in list order; a script is started only when every script before it has
\* returned 0, so that a child runs only as the last of the scripts started;
\* after a return code other than 0 nothing more is started and the task is
\* reported as failed; it is reported as successful only when every script of
\* the list has returned 0.
C28_ScriptsInOrderHaltOnFailure ==
    \A k \in WorkerIds :
        LET w == workers[k] IN
        w.phase # "ended" =>
            /\ w.started = SubSeq(w.scripts, 1, w.i)
            /\ Len(w.codes) = (IF w.phase \in {"read", "wait"} THEN w.i - 1 ELSE w.i)
            /\ w.child.alive => w.phase = "read"
            /\ AllZero(SubSeq(w.codes, 1, Len(w.codes) - 1))
            /\ ~AllZero(w.codes) => (w.phase = "finish" /\ w.result = "failed")
            /\ w.result = "failed" => (w.phase = "finish" /\ ~AllZero(w.codes))
            /\ w.result = "success" =>
                  (w.phase = "finish" /\ AllZero(w.codes) /\ w.started = w.scripts)
            /\ w.phase = "finish" => w.result \in {"success", "failed"}
            /\ \A j \in 1..Len(w.started) :
                  w.started[j] = "filter_and_save.py" =>
                      /\ j > 1
                      /\ w.started[j - 1] = "hermes_discoverer.py"
                      /\ w.codes[j - 1] = 0

\* the filtering script has failed: the four scripts after it were never started
C28_Witness ==
    \E k \in WorkerIds :
        /\ workers[k].scripts = scripts_for("full")
        /\ workers[k].phase = "finish"
        /\ workers[k].result = "failed"
        /\ workers[k].started = SubSeq(scripts_for("full"), 1, 4)
        /\ workers[k].codes = <<0, 0, 0, 1>>

\* the worker waits for a line of the child's stdout, and the child waits for room
\* in its stderr pipe, which the worker reads only after the child has exited
Blocked(k) ==
    /\ workers[k].phase = "read"
    /\ workers[k].child.alive
    /\ workers[k].child.out_pipe = 0
    /\ workers[k].child.todo # <<>>
    /\ Head(workers[k].child.todo) = "err"
    /\ workers[k].child.err_pipe = PipeCap

\* C29 as stated: every task goes on to task_finished; in particular no worker is
\* ever waiting on the stdout of a child that is blocked writing to its stderr
\* pipe (a state no step of the worker or of the child leads out of).
C29_Original == \A k \in WorkerIds : ~Blocked(k)

(***************************************************************************)
(* Properties of get_article_content (specification SpecScrape).           *)
(***************************************************************************)
\* the fast strategy fails: a network error, or too little text
FastFails ==
    \/ scr_web.fast.kind = "error"
    \/ joined_length(SelectSeq(scr_web.fast.paragraphs,
                               LAMBDA n : n >= MIN_PARAGRAPH_LENGTH)) < MIN_CONTENT_LENGTH

\* C13 as stated: when get_article_content has returned after a failure of the
\* fast strategy, the browser strategy was attempted.
C13_Original ==
    (scr_pc = "returned" /\ FastFails) => scr_tried = <<"requests", "selenium">>

\* C13, amended: when get_article_content has returned after a failure of the fast
\* strategy, the browser strategy was attempted if the Selenium libraries are
\* available; if they are not, None was returned with the fast strategy alone tried.
C13_BrowserTriedWhenAvailable ==
    (scr_pc = "returned" /\ FastFails) =>
        IF scr_web.SELENIUM_AVAILABLE
        THEN /\ scr_tried = <<"requests", "selenium">>
             /\ scr_result = browser_attempt(scr_web.browser)
        ELSE /\ scr_tried = <<"requests">>
             /\ scr_result = NoArticle

C13_Witness ==
    /\ scr_pc = "returned"
    /\ scr_web.fast = Page(<<"T">>, <<100, 50>>)
    /\ scr_web.SELENIUM_AVAILABLE
    /\ scr_web.browser = Page(<<"T">>, <<50, 49>>)
    /\ scr_tried = <<"requests", "selenium">>
    /\ scr_result = NoArticle

\* C26: the strategies are attempted in the order requests, selenium; when the
\* text the fast strategy extracts meets the minimum length, its article is what
\* get_article_content returns and the browser is never started; the browser is
\* started only after the fast strategy has failed.
C26_FastFirstBrowserOnlyAfterFailure ==
    /\ scr_tried \in {<<>>, <<"requests">>, <<"requests", "selenium">>}
    /\ scr_pc \in {"fallback", "browser"} => (scr_tried = <<"requests">> /\ FastFails)
    /\ scr_tried = <<"requests", "selenium">> => FastFails
    /\ (scr_pc = "returned" /\ ~FastFails) =>
          /\ scr_tried = <<"requests">>
          /\ scr_result.ok
          /\ scr_result.title = scr_web.fast.title
          /\ scr_result.content =
                SelectSeq(scr_web.fast.paragraphs, LAMBDA n : n >= MIN_PARAGRAPH_LENGTH)

\* a page whose kept paragraphs are exactly MIN_CONTENT_LENGTH long when joined,
\* with a browser that would give a longer text
C26_Witness ==
    /\ scr_pc = "returned"
    /\ scr_web.fast = Page(<<"T">>, <<99, 100>>)
    /\ scr_web.SELENIUM_AVAILABLE
    /\ scr_web.browser = Page(<<"T">>, <<200, 200>>)
    /\ scr_tried = <<"requests">>
    /\ scr_result.ok

(***************************************************************************)
(* Properties of the ledger text (specification SpecLedger).               *)
(***************************************************************************)
\* C14 as stated: parse_database gives back, record by record, the Title, URL,
\* Date_Processed, Reason and Summary that append_to_database wrote.
C14_Original ==
    led_pc = "parsed" =>
        /\ Len(articles) = Len(written)
        /\ \A i \in 1..Len(written) :
              /\ articles[i].Title = written[i].Title
              /\ articles[i].URL = written[i].URL
              /\ articles[i].Date_Processed = written[i].Date_Processed
              /\ articles[i].Reason = written[i].Reason
              /\ articles[i].Summary = written[i].Summary

====
